---- MODULE Spec2Model ----
(***************************************************************************)
(* Model of the render orchestration core of terrain_renderer:            *)
(*   src/src/render/scene.rs           Camera, SceneUniform, SceneBindGroup*)
(*   src/src/render/render_manager.rs  RenderManager                       *)
(*   src/src/core/time_manager.rs      TimeManager                         *)
(*   src/src/utils/mod.rs              create_texture_2d, copy_textures_2d *)
(*   src/src/core/input_manager.rs     InputManager                        *)
(*   src/src/controllers/camera_controller.rs  CameraController            *)
(*   src/src/core/app.rs               App: the event loop and its ticks   *)
(*                                                                         *)
(* f32 values are modelled as exact rationals <<n, d>> in lowest terms     *)
(* (d > 0); <<s, 0>> stands for the non-finite results of a division by    *)
(* zero.  Vec3 is a 3-tuple, Quat a 4-tuple <<x, y, z, w>>, Mat4 a tuple   *)
(* of four columns of four scalars (glam's column-major layout).           *)
(***************************************************************************)
EXTENDS Integers, Sequences, FiniteSets, TLC

VARIABLES
    surface_config,     \* RenderManager.surface_config (width, height)
    depth_texture,      \* RenderManager.depth_texture
    depth_view,         \* RenderManager.depth_view
    camera,             \* RenderManager.camera: Camera (scene.rs:274-286)
    scene_bind_group,   \* RenderManager.scene_bind_group: SceneBindGroup
    renderers_by_stage, \* RenderManager.renderers_by_stage
    time_manager,       \* TimeManager (time_manager.rs:3-6)
    call,               \* the most recent RenderManager / TimeManager call
    cam_call,           \* the most recent Camera method call
    app                 \* App: input manager, camera controller, tick loop

rm_vars ==
    <<surface_config, depth_texture, depth_view, scene_bind_group,
      renderers_by_stage, time_manager, call, app>>

vars ==
    <<surface_config, depth_texture, depth_view, camera, scene_bind_group,
      renderers_by_stage, time_manager, call, cam_call, app>>

\* let x = v; f(x): v is computed once and f is applied to its value.
Bind(v, f(_)) == CHOOSE r \in {f(x) : x \in {v}} : TRUE

\* ------------------------------------------------------- f32 as rationals
Abs(n) == IF n < 0 THEN -n ELSE n

Sign(n) == IF n < 0 THEN -1 ELSE IF n > 0 THEN 1 ELSE 0

RECURSIVE GCD(_, _)
GCD(a, b) == IF b = 0 THEN a ELSE GCD(b, a % b)

F32(n, d) ==
    IF d = 0 THEN <<Sign(n), 0>>
    ELSE IF n = 0 THEN <<0, 1>>
    ELSE LET g == GCD(Abs(n), Abs(d))
         IN  <<(Sign(d) * n) \div g, Abs(d) \div g>>

Num(n) == <<n, 1>>

Add(a, b) ==
    IF a[2] = 0 \/ b[2] = 0 THEN <<0, 0>>
    ELSE IF a[1] = 0 THEN b
    ELSE IF b[1] = 0 THEN a
    ELSE IF a[2] = 1 /\ b[2] = 1 THEN <<a[1] + b[1], 1>>
    ELSE IF a[2] = b[2] THEN F32(a[1] + b[1], a[2])
    ELSE F32(a[1] * b[2] + b[1] * a[2], a[2] * b[2])

Neg(a) == <<-a[1], a[2]>>

Sub(a, b) == Add(a, Neg(b))

Mul(a, b) ==
    IF a[2] = 0 \/ b[2] = 0 THEN <<0, 0>>
    ELSE IF a[1] = 0 \/ b[1] = 0 THEN <<0, 1>>
    ELSE IF a[2] = 1 /\ b[2] = 1 THEN <<a[1] * b[1], 1>>
    ELSE IF a[2] = 1 /\ Abs(a[1]) = 1 THEN <<a[1] * b[1], b[2]>>
    ELSE IF b[2] = 1 /\ Abs(b[1]) = 1 THEN <<a[1] * b[1], a[2]>>
    ELSE F32(a[1] * b[1], a[2] * b[2])

\* a <= b, for finite a and b.
Le(a, b) == a[1] * b[2] <= b[1] * a[2]

Div(a, b) ==
    IF a[2] = 0 \/ b[2] = 0 THEN <<0, 0>>
    ELSE F32(a[1] * b[2], a[2] * b[1])

\* ------------------------------------------------------------------- glam
Vec3_ZERO == <<Num(0), Num(0), Num(0)>>

Vec3_Z == <<Num(0), Num(0), Num(1)>>

Quat_IDENTITY == <<Num(0), Num(0), Num(0), Num(1)>>

Mat4_IDENTITY ==
    << <<Num(1), Num(0), Num(0), Num(0)>>,
       <<Num(0), Num(1), Num(0), Num(0)>>,
       <<Num(0), Num(0), Num(1), Num(0)>>,
       <<Num(0), Num(0), Num(0), Num(1)>> >>

Dot(a, b) == Add(Add(Mul(a[1], b[1]), Mul(a[2], b[2])), Mul(a[3], b[3]))

Cross(a, b) ==
    << Sub(Mul(a[2], b[3]), Mul(b[2], a[3])),
       Sub(Mul(a[3], b[1]), Mul(b[3], a[1])),
       Sub(Mul(a[1], b[2]), Mul(b[1], a[2])) >>

Scale(v, s) == <<Mul(v[1], s), Mul(v[2], s), Mul(v[3], s)>>

VAdd(a, b) == <<Add(a[1], b[1]), Add(a[2], b[2]), Add(a[3], b[3])>>

\* Quat::mul_vec3: rhs * (w*w - b.b) + b * (rhs.b * 2) + (b x rhs) * (w * 2)
mul_vec3(q, rhs) ==
    LET w  == q[4]
        b  == <<q[1], q[2], q[3]>>
        b2 == Dot(b, b)
    IN  VAdd(VAdd(Scale(rhs, Sub(Mul(w, w), b2)),
                  Scale(b, Mul(Dot(rhs, b), Num(2)))),
             Scale(Cross(b, rhs), Mul(w, Num(2))))

\* Mat4::from_rotation_translation: the axes of the rotation, then the
\* translation as the fourth column.
from_rotation_translation(q, t) ==
    LET x  == q[1]
        y  == q[2]
        z  == q[3]
        w  == q[4]
        x2 == Add(x, x)
        y2 == Add(y, y)
        z2 == Add(z, z)
        xx == Mul(x, x2)
        xy == Mul(x, y2)
        xz == Mul(x, z2)
        yy == Mul(y, y2)
        yz == Mul(y, z2)
        zz == Mul(z, z2)
        wx == Mul(w, x2)
        wy == Mul(w, y2)
        wz == Mul(w, z2)
    IN  << <<Sub(Num(1), Add(yy, zz)), Add(xy, wz), Sub(xz, wy), Num(0)>>,
           <<Sub(xy, wz), Sub(Num(1), Add(xx, zz)), Add(yz, wx), Num(0)>>,
           <<Add(xz, wy), Sub(yz, wx), Sub(Num(1), Add(xx, yy)), Num(0)>>,
           <<t[1], t[2], t[3], Num(1)>> >>

\* Mat4::inverse of a rigid transform [R | t] (the only matrices the camera
\* inverts; their determinant is 1): [R^T | -R^T t].
inverse(m) ==
    Bind(m, LAMBDA a :
        LET t     == <<a[4][1], a[4][2], a[4][3]>>
            nt(r) == Neg(Dot(<<a[r][1], a[r][2], a[r][3]>>, t))
        IN  << <<a[1][1], a[2][1], a[3][1], Num(0)>>,
               <<a[1][2], a[2][2], a[3][2], Num(0)>>,
               <<a[1][3], a[2][3], a[3][3], Num(0)>>,
               <<nt(1), nt(2), nt(3), Num(1)>> >>)

\* Mat4 * Mat4 (column-major): column j of the product is a * (column j of b).
mat4_mul(a, b) ==
    LET e(i, j) ==
            Add(Add(Mul(a[1][i], b[j][1]), Mul(a[2][i], b[j][2])),
                Add(Mul(a[3][i], b[j][3]), Mul(a[4][i], b[j][4])))
        col(j) == <<e(1, j), e(2, j), e(3, j), e(4, j)>>
    IN  <<col(1), col(2), col(3), col(4)>>

\* cos(a) / sin(a) for a = to_radians(fov) * 0.5, fov in degrees, to three
\* decimals.
cot_half(fov) ==
    CASE fov = 60  -> F32(1732, 1000)
      [] fov = 90  -> F32(1000, 1000)
      [] fov = 120 -> F32(577, 1000)

\* Mat4::perspective_lh(fov_y_radians, aspect_ratio, z_near, z_far), given
\* the field of view in degrees.
perspective_lh(fov, aspect_ratio, z_near, z_far) ==
    LET h == cot_half(fov)
        w == Div(h, aspect_ratio)
        r == Div(z_far, Sub(z_far, z_near))
    IN  << <<w, Num(0), Num(0), Num(0)>>,
           <<Num(0), h, Num(0), Num(0)>>,
           <<Num(0), Num(0), r, Num(1)>>,
           <<Num(0), Num(0), Neg(Mul(r, z_near)), Num(0)>> >>

\* ----------------------------------------------------------------- Camera
\* A constructor that hands out the default cache as if it were computed.
Camera_new_clean(position, rotation, fov, aspect_ratio, near_plane, far_plane) ==
    [ position         |-> position,
      rotation         |-> rotation,
      fov              |-> fov,
      aspect_ratio     |-> aspect_ratio,
      near_plane       |-> near_plane,
      far_plane        |-> far_plane,
      is_dirty         |-> FALSE,
      look_dir         |-> Vec3_ZERO,
      view_matrix      |-> Mat4_IDENTITY,
      proj_matrix      |-> Mat4_IDENTITY,
      view_proj_matrix |-> Mat4_IDENTITY ]

Camera_new(position, rotation, fov, aspect_ratio, near_plane, far_plane) ==
    [ position         |-> position,
      rotation         |-> rotation,
      fov              |-> fov,
      aspect_ratio     |-> aspect_ratio,
      near_plane       |-> near_plane,
      far_plane        |-> far_plane,
      is_dirty         |-> TRUE,
      look_dir         |-> Vec3_ZERO,
      view_matrix      |-> Mat4_IDENTITY,
      proj_matrix      |-> Mat4_IDENTITY,
      view_proj_matrix |-> Mat4_IDENTITY ]

set_position(self, position) ==
    [self EXCEPT !.position = position, !.is_dirty = TRUE]

\* A set_rotation that stores the value and leaves the stale flag as it is.
set_rotation_keep_clean(self, rotation) ==
    [self EXCEPT !.rotation = rotation]

set_rotation(self, rotation) ==
    [self EXCEPT !.rotation = rotation, !.is_dirty = TRUE]

\* A set_fov that marks the derived values stale only when the value differs.
set_fov_if_changed(self, fov) ==
    [self EXCEPT !.fov = fov, !.is_dirty = (self.is_dirty \/ fov # self.fov)]

set_fov(self, fov) ==
    [self EXCEPT !.fov = fov, !.is_dirty = TRUE]

set_aspect_ratio(self, aspect_ratio) ==
    [self EXCEPT !.aspect_ratio = aspect_ratio, !.is_dirty = TRUE]

set_near_plane(self, near_plane) ==
    [self EXCEPT !.near_plane = near_plane, !.is_dirty = TRUE]

set_far_plane(self, far_plane) ==
    [self EXCEPT !.far_plane = far_plane, !.is_dirty = TRUE]

update_values(self) ==
    Bind(inverse(from_rotation_translation(self.rotation, self.position)),
         LAMBDA view :
    Bind(perspective_lh(self.fov, self.aspect_ratio,
                        self.near_plane, self.far_plane),
         LAMBDA proj :
        [self EXCEPT !.look_dir         = mul_vec3(self.rotation, Vec3_Z),
                     !.view_matrix      = view,
                     !.proj_matrix      = proj,
                     !.view_proj_matrix = mat4_mul(proj, view)]))

\* The four derived getters take &mut self.  Each yields the camera after
\* the call (self), the value returned (ret) and whether update_values ran.
look_dir(self) ==
    IF self.is_dirty
    THEN Bind([update_values(self) EXCEPT !.is_dirty = FALSE], LAMBDA c :
             [self |-> c, ret |-> c.look_dir, recomputed |-> TRUE])
    ELSE [self |-> self, ret |-> self.look_dir, recomputed |-> FALSE]

view_matrix(self) ==
    IF self.is_dirty
    THEN Bind([update_values(self) EXCEPT !.is_dirty = FALSE], LAMBDA c :
             [self |-> c, ret |-> c.view_matrix, recomputed |-> TRUE])
    ELSE [self |-> self, ret |-> self.view_matrix, recomputed |-> FALSE]

proj_matrix(self) ==
    IF self.is_dirty
    THEN Bind([update_values(self) EXCEPT !.is_dirty = FALSE], LAMBDA c :
             [self |-> c, ret |-> c.proj_matrix, recomputed |-> TRUE])
    ELSE [self |-> self, ret |-> self.proj_matrix, recomputed |-> FALSE]

\* A view_proj_matrix that recomputes when stale and leaves the flag set.
view_proj_matrix_keep_dirty(self) ==
    IF self.is_dirty
    THEN Bind(update_values(self), LAMBDA c :
             [self |-> c, ret |-> c.view_proj_matrix, recomputed |-> TRUE])
    ELSE [self |-> self, ret |-> self.view_proj_matrix, recomputed |-> FALSE]

view_proj_matrix(self) ==
    IF self.is_dirty
    THEN Bind([update_values(self) EXCEPT !.is_dirty = FALSE], LAMBDA c :
             [self |-> c, ret |-> c.view_proj_matrix, recomputed |-> TRUE])
    ELSE [self |-> self, ret |-> self.view_proj_matrix, recomputed |-> FALSE]

\* ------------------------------------------------------------ bounds
\* add_renderer is called at most MaxRenderers times.
MaxRenderers == 2

\* Frames are rendered while the accumulated time stays within MaxTime.
MaxTime == 80000

\* Window sizes in pixels, of the initial window and of resize events; a
\* minimized window has a zero dimension.
Widths == {0, 400, 800}

Heights == {0, 600}

\* Milliseconds that pass between two updates of the time source.
ElapsedMs == {0, 40}

\* Option<T>: None, or Some(x).
None == <<>>

Some(x) == <<x>>

\* --------------------------------------------------------------- utils
\* Handles of the textures a device has created are natural numbers; a new
\* texture gets a handle no live texture has.
NewId(live) ==
    CHOOSE n \in 1..(Cardinality(live) + 1) :
        n \notin live /\ \A m \in 1..(n - 1) : m \in live

create_texture_2d(live, format, width, height, usage) ==
    [id |-> NewId(live), format |-> format, width |-> width,
     height |-> height, usage |-> usage]

create_view(texture) == [texture |-> texture.id]

\* copy_textures_2d: context.encoder().borrow_mut().as_mut().unwrap() records
\* a copy of the whole source (mip 0, one layer) at the target's origin.
copy_textures_2d(encoder, source, target) ==
    Append(encoder,
           [op |-> "copy", source |-> source, target |-> target,
            extent |-> <<source.width, source.height>>])

\* ------------------------------------------------------- SceneBindGroup
GlobalLight_default ==
    [light_direction |-> <<Num(-1), Num(-1), Num(-1)>>,
     light_color     |-> <<F32(8, 10), F32(48, 100), F32(74, 100)>>]

SceneUniform_default ==
    [view_proj_matrix |-> Mat4_IDENTITY,
     camera_dir       |-> Vec3_ZERO,
     camera_pos       |-> Vec3_ZERO,
     surface_size     |-> <<Num(0), Num(0)>>,
     camera_near      |-> Num(0),
     camera_far       |-> Num(0),
     global_light     |-> GlobalLight_default,
     ambient_light    |-> <<F32(85, 1000), F32(245, 1000), F32(494, 1000)>>,
     time             |-> Num(0)]

SceneBindGroup_new(opaque_texture, opaque_depth_texture) ==
    [uniform              |-> SceneUniform_default,
     buffer               |-> SceneUniform_default,
     opaque_texture       |-> opaque_texture,
     opaque_view          |-> create_view(opaque_texture),
     opaque_depth_texture |-> opaque_depth_texture,
     opaque_depth_view    |-> create_view(opaque_depth_texture),
     bind_group           |-> None]

\* An update_uniform that stores the record and writes no buffer.
update_uniform_record_only(self, uniform) ==
    [self EXCEPT !.uniform = uniform]

update_uniform(self, uniform) ==
    [self EXCEPT !.uniform = uniform, !.buffer = uniform]

\* update_textures that keeps the previous opaque depth snapshot.
update_textures_keep_depth(self, opaque_texture, opaque_depth_texture) ==
    [self EXCEPT !.opaque_texture = opaque_texture,
                 !.opaque_view    = create_view(opaque_texture),
                 !.bind_group     = None]

\* update_textures that keeps the cached bind group.
update_textures_keep_bind_group(self, opaque_texture, opaque_depth_texture) ==
    [self EXCEPT !.opaque_texture       = opaque_texture,
                 !.opaque_view          = create_view(opaque_texture),
                 !.opaque_depth_texture = opaque_depth_texture,
                 !.opaque_depth_view    = create_view(opaque_depth_texture)]

update_textures(self, opaque_texture, opaque_depth_texture) ==
    [self EXCEPT !.opaque_texture       = opaque_texture,
                 !.opaque_view          = create_view(opaque_texture),
                 !.opaque_depth_texture = opaque_depth_texture,
                 !.opaque_depth_view    = create_view(opaque_depth_texture),
                 !.bind_group           = None]

create_bind_group(self) ==
    [buffer            |-> "scene_uniform_buffer",
     sampler           |-> "opaque_sampler",
     opaque_view       |-> self.opaque_view,
     opaque_depth_view |-> self.opaque_depth_view]

\* BindGroupHelper::bind_group: the scene bind group after the call (self),
\* the bind group returned (ret) and whether it was built by this call.
bind_group(self) ==
    IF self.bind_group = None
    THEN LET bg == create_bind_group(self)
         IN  [self |-> [self EXCEPT !.bind_group = Some(bg)], ret |-> bg,
              created |-> TRUE]
    ELSE [self |-> self, ret |-> self.bind_group[1], created |-> FALSE]

\* ----------------------------------------------------------- TimeManager
TimeManager_new == [delta |-> Num(0)]

\* TimeManager::update.  Only the time elapsed since the previous update (or
\* since construction) matters; elapsed_ms is
\* instant.duration_since(last_instant).as_millis().
TimeManager_update(self, elapsed_ms) ==
    [self EXCEPT !.delta = Mul(Num(elapsed_ms), Num(1000))]

\* ---------------------------------------------------------- InputManager
Vec2_ZERO == <<Num(0), Num(0)>>

\* InputSettings::default(); a key is named by its KeyCode.
InputSettings_default ==
    [look_sensitivity |-> F32(1, 10),
     right_keys       |-> {"KeyD", "ArrowRight"},
     left_keys        |-> {"KeyA", "ArrowLeft"},
     up_keys          |-> {"KeyE"},
     down_keys        |-> {"KeyD"},
     forward_keys     |-> {"KeyW", "ArrowUp"},
     backward_keys    |-> {"KeyS", "ArrowDown"}]

InputManager_new ==
    [last_cursor_pos |-> Vec2_ZERO,
     move_vector     |-> Vec3_ZERO,
     look_delta      |-> Vec2_ZERO]

\* handle_keyboard_input(event), for event.physical_key and event.state.
handle_keyboard_input(self, key, state) ==
    LET settings == InputSettings_default
        m == self.move_vector
    IN  IF state = "Pressed"
        THEN [self EXCEPT !.move_vector =
                 << IF key \in settings.right_keys THEN Num(1)
                    ELSE IF key \in settings.left_keys THEN Num(-1)
                    ELSE m[1],
                    IF key \in settings.up_keys THEN Num(1)
                    ELSE IF key \in settings.down_keys THEN Num(-1)
                    ELSE m[2],
                    IF key \in settings.forward_keys THEN Num(1)
                    ELSE IF key \in settings.backward_keys THEN Num(-1)
                    ELSE m[3] >>]
        ELSE [self EXCEPT !.move_vector =
                 IF key \in settings.right_keys \cup settings.left_keys
                 THEN <<Num(0), m[2], m[3]>>
                 ELSE IF key \in settings.up_keys \cup settings.down_keys
                 THEN <<m[1], m[2], Num(0)>>
                 ELSE IF key \in settings.forward_keys
                                     \cup settings.backward_keys
                 THEN <<m[1], Num(0), m[3]>>
                 ELSE m]

\* handle_cursor_movement(cursor_position)
handle_cursor_movement(self, cursor_pos) ==
    [self EXCEPT
        !.look_delta =
            << Mul(Sub(cursor_pos[1], self.last_cursor_pos[1]),
                   InputSettings_default.look_sensitivity),
               Mul(Sub(cursor_pos[2], self.last_cursor_pos[2]),
                   InputSettings_default.look_sensitivity) >>,
        !.last_cursor_pos = cursor_pos]

\* A late_update that leaves the look delta as it is.
late_update_keep(self) == self

late_update(self) == [self EXCEPT !.look_delta = Vec2_ZERO]

\* ------------------------------------------------------ CameraController
CameraSettings_default ==
    [initial_pos             |-> Vec3_ZERO,
     initial_rotation_angles |-> Vec2_ZERO,
     speed                   |-> Num(1)]

CameraController_new ==
    [position        |-> CameraSettings_default.initial_pos,
     rotation_angles |-> CameraSettings_default.initial_rotation_angles]

\* (sin, cos) of to_radians(degrees) * 0.5, for an angle of whole half turns.
sin_cos_half(degrees) ==
    LET half_turns == (degrees[1] \div 180) % 4
    IN  CASE half_turns = 0 -> <<Num(0), Num(1)>>
          [] half_turns = 1 -> <<Num(1), Num(0)>>
          [] half_turns = 2 -> <<Num(0), Num(-1)>>
          [] half_turns = 3 -> <<Num(-1), Num(0)>>

\* Quat::from_rotation_y(degrees.to_radians())
from_rotation_y(degrees) ==
    LET sc == sin_cos_half(degrees)
    IN  <<Num(0), sc[1], Num(0), sc[2]>>

\* Quat::from_rotation_x(degrees.to_radians())
from_rotation_x(degrees) ==
    LET sc == sin_cos_half(degrees)
    IN  <<sc[1], Num(0), Num(0), sc[2]>>

\* Quat * Quat
mul_quat(a, b) ==
    << Add(Add(Mul(a[4], b[1]), Mul(a[1], b[4])),
           Sub(Mul(a[2], b[3]), Mul(a[3], b[2]))),
       Add(Sub(Mul(a[4], b[2]), Mul(a[1], b[3])),
           Add(Mul(a[2], b[4]), Mul(a[3], b[1]))),
       Add(Add(Mul(a[4], b[3]), Mul(a[1], b[2])),
           Sub(Mul(a[3], b[4]), Mul(a[2], b[1]))),
       Sub(Sub(Mul(a[4], b[4]), Mul(a[1], b[1])),
           Add(Mul(a[2], b[2]), Mul(a[3], b[3]))) >>

\* The rotation the controller derives from its yaw and pitch angles.
controller_rotation(rotation_angles) ==
    mul_quat(from_rotation_y(rotation_angles[1]),
             from_rotation_x(rotation_angles[2]))

\* CameraController::update(time_manager, input_manager, render_manager):
\* the controller after the call (self) and the camera it wrote to.
CameraController_update(self, tm, im, cam) ==
    Bind(<<Add(self.rotation_angles[1], im.look_delta[1]),
           Add(self.rotation_angles[2], im.look_delta[2])>>,
         LAMBDA rotation_angles :
    Bind(controller_rotation(rotation_angles), LAMBDA rotation :
    Bind(VAdd(self.position,
              Scale(mul_vec3(rotation, im.move_vector),
                    Mul(CameraSettings_default.speed, tm.delta))),
         LAMBDA position :
        [self   |-> [self EXCEPT !.position = position,
                                 !.rotation_angles = rotation_angles],
         camera |-> set_rotation(set_position(cam, position), rotation)])))

\* ------------------------------------------------------------------- App
AppSettings_default ==
    [initial_size      |-> [width |-> 800, height |-> 600],
     target_frame_rate |-> 30]

\* The App that App::new builds around the render manager.
\* since_render_ms is the wall-clock time since last_render_time and
\* since_update_ms the time since the last update of the time source; at is
\* the statement the application is at; moved tells whether a pointer-move
\* event arrived since the last tick; tick lists the steps of the latest
\* tick; tick_cursor_pos is the cursor position the input manager held at
\* the end of the last tick; resizes counts the Resized events of a
\* non-empty size.
App_new ==
    [input_manager     |-> InputManager_new,
     camera_controller |-> CameraController_new,
     since_render_ms   |-> 0,
     since_update_ms   |-> 0,
     exiting           |-> FALSE,
     resizes           |-> 0,
     at                |-> "new",
     moved             |-> FALSE,
     tick_cursor_pos   |-> Vec2_ZERO,
     tick              |-> <<>>]

\* --------------------------------------------------------- RenderManager
Stages == {"OPAQUE", "TRANSPARENT"}

\* The renderers handed to add_renderer: boxed objects of a renderer type,
\* each declaring its stage.  MeshRenderer and WaterRenderer record the same
\* kind of pass and stand under one name.
Renderers == [name : {"MeshRenderer", "SkyboxRenderer"}, stage : Stages]

RenderSettings_default ==
    [clear_color       |-> <<0, 0, 0, 1>>,
     camera_fov        |-> 60,
     camera_near_plane |-> F32(1, 10),
     camera_far_plane  |-> F32(100, 1)]

SURFACE_FORMAT == "surface_format"

DEPTH_FORMAT == "Depth32Float"

\* Handles of the textures alive in a render manager.
LiveTextures(depth, sbg) ==
    {depth.id, sbg.opaque_texture.id, sbg.opaque_depth_texture.id,
     sbg.opaque_view.texture, sbg.opaque_depth_view.texture}
    \cup (IF sbg.bind_group = None THEN {}
          ELSE {sbg.bind_group[1].opaque_view.texture,
                sbg.bind_group[1].opaque_depth_view.texture})

\* (width as f32) / (height as f32): exactly width / height.
aspect_ratio_truncated(width, height) ==
    IF height = 0 THEN <<Sign(width), 0>> ELSE Num(width \div height)

aspect_ratio_of(width, height) == Div(Num(width), Num(height))

\* A map of the stages that starts with no bucket.
renderers_by_stage_unfilled == [s \in {} |-> <<>>]

\* HashMap::from([(OPAQUE, Vec::new()), (TRANSPARENT, Vec::new())])
renderers_by_stage_new == [s \in Stages |-> <<>>]

\* RenderManager::new for a window of the given inner size, once the
\* surface, the adapter and the device have been obtained: everything but
\* the camera.
RenderManager_new(surface_width, surface_height) ==
    LET depth == create_texture_2d({}, DEPTH_FORMAT, surface_width,
                     surface_height, {"RENDER_ATTACHMENT", "COPY_SRC"})
        opaque == create_texture_2d({depth.id}, SURFACE_FORMAT,
                      surface_width, surface_height,
                      {"TEXTURE_BINDING", "COPY_DST"})
        opaque_depth == create_texture_2d({depth.id, opaque.id},
                            DEPTH_FORMAT, surface_width, surface_height,
                            {"TEXTURE_BINDING", "COPY_DST"})
    IN  /\ surface_config =
               [format |-> SURFACE_FORMAT, width |-> surface_width,
                height |-> surface_height]
        /\ depth_texture = depth
        /\ depth_view = create_view(depth)
        /\ scene_bind_group = SceneBindGroup_new(opaque, opaque_depth)
        /\ renderers_by_stage = renderers_by_stage_new

Init ==
    \E surface_width \in Widths \ {0}, surface_height \in Heights \ {0} :
        /\ RenderManager_new(surface_width, surface_height)
        /\ camera = Camera_new(Vec3_ZERO, Quat_IDENTITY,
                        RenderSettings_default.camera_fov,
                        aspect_ratio_of(surface_width, surface_height),
                        RenderSettings_default.camera_near_plane,
                        RenderSettings_default.camera_far_plane)
        /\ time_manager = TimeManager_new
        /\ call = [op |-> "new"]
        /\ cam_call = [op |-> "new"]
        /\ app = App_new

\* add_renderer that puts the renderer at the front of its bucket.
add_renderer_front(renderer) ==
    /\ renderers_by_stage' =
           [renderers_by_stage EXCEPT ![renderer.stage] = <<renderer>> \o @]
    /\ call' = [op |-> "add_renderer", renderer |-> renderer]
    /\ UNCHANGED <<surface_config, depth_texture, depth_view, camera,
                   scene_bind_group, time_manager, cam_call>>

\* add_renderer(renderer)
add_renderer(renderer) ==
    LET with_bucket ==
            IF renderer.stage \in DOMAIN renderers_by_stage
            THEN renderers_by_stage
            ELSE [s \in DOMAIN renderers_by_stage \cup {renderer.stage} |->
                     IF s \in DOMAIN renderers_by_stage
                     THEN renderers_by_stage[s] ELSE <<>>]
    IN  /\ renderers_by_stage' =
               [with_bucket EXCEPT ![renderer.stage] = Append(@, renderer)]
        /\ call' = [op |-> "add_renderer", renderer |-> renderer]
        /\ UNCHANGED <<surface_config, depth_texture, depth_view, camera,
                       scene_bind_group, time_manager, cam_call>>

\* A resize that starts the scene uniform afresh from the default record.
resize_targets_fresh_uniform(width, height) ==
    LET config == [surface_config EXCEPT !.width = width,
                                         !.height = height]
        uniform == [SceneUniform_default EXCEPT
                       !.surface_size = <<Num(width), Num(height)>>]
        sbg1 == update_uniform(scene_bind_group, uniform)
        depth == create_texture_2d(
                     LiveTextures(depth_texture, sbg1),
                     depth_texture.format, width, height,
                     depth_texture.usage)
        opaque == create_texture_2d(
                      LiveTextures(depth, sbg1),
                      config.format, width, height,
                      sbg1.opaque_texture.usage)
        opaque_depth == create_texture_2d(
                            LiveTextures(depth, sbg1) \cup {opaque.id},
                            depth.format, width, height,
                            sbg1.opaque_depth_texture.usage)
    IN  /\ surface_config' = config
        /\ depth_texture' = depth
        /\ depth_view' = create_view(depth)
        /\ scene_bind_group' = update_textures(sbg1, opaque, opaque_depth)
        /\ camera' = set_aspect_ratio(camera, aspect_ratio_of(width, height))
        \* Surface::configure and Device::create_texture reject an empty
        \* extent, and the device's error handler panics.
        /\ call' = [op |-> "handle_resize", width |-> width,
                    height |-> height,
                    panicked |-> (width = 0 \/ height = 0)]
        /\ UNCHANGED <<renderers_by_stage, time_manager, cam_call>>

\* handle_resize, lines 175-214: the surface is reconfigured, the surface
\* size is written to the scene uniform, the depth texture and both opaque
\* snapshot textures are recreated and the camera gets the new aspect ratio.
resize_targets(width, height) ==
    LET config == [surface_config EXCEPT !.width = width,
                                         !.height = height]
        uniform == [scene_bind_group.uniform EXCEPT
                       !.surface_size = <<Num(width), Num(height)>>]
        sbg1 == update_uniform(scene_bind_group, uniform)
        depth == create_texture_2d(
                     LiveTextures(depth_texture, sbg1),
                     depth_texture.format, width, height,
                     depth_texture.usage)
        opaque == create_texture_2d(
                      LiveTextures(depth, sbg1),
                      config.format, width, height,
                      sbg1.opaque_texture.usage)
        opaque_depth == create_texture_2d(
                            LiveTextures(depth, sbg1) \cup {opaque.id},
                            depth.format, width, height,
                            sbg1.opaque_depth_texture.usage)
    IN  /\ surface_config' = config
        /\ depth_texture' = depth
        /\ depth_view' = create_view(depth)
        /\ scene_bind_group' = update_textures(sbg1, opaque, opaque_depth)
        /\ camera' = set_aspect_ratio(camera, aspect_ratio_of(width, height))
        \* Surface::configure and Device::create_texture reject an empty
        \* extent, and the device's error handler panics.
        /\ call' = [op |-> "handle_resize", width |-> width,
                    height |-> height,
                    panicked |-> (width = 0 \/ height = 0)]
        /\ UNCHANGED <<renderers_by_stage, time_manager, cam_call>>

handle_resize_unguarded(width, height) == resize_targets(width, height)

\* handle_resize(size)
handle_resize(width, height) ==
    IF width = 0 \/ height = 0
    THEN /\ call' = [op |-> "handle_resize", width |-> width,
                     height |-> height, panicked |-> FALSE]
         /\ UNCHANGED <<surface_config, depth_texture, depth_view, camera,
                        scene_bind_group, renderers_by_stage, time_manager,
                        cam_call>>
    ELSE resize_targets(width, height)

\* A refresh that copies the camera's cached values as they are.
refresh_uniform_cached(cam, sbg, tm) ==
    LET uniform == [sbg.uniform EXCEPT
                       !.view_proj_matrix = cam.view_proj_matrix,
                       !.camera_dir       = cam.look_dir,
                       !.camera_pos       = cam.position,
                       !.camera_near      = cam.near_plane,
                       !.camera_far       = cam.far_plane,
                       !.time             = Add(@, tm.delta)]
    IN  [camera           |-> [cam EXCEPT !.is_dirty = FALSE],
         scene_bind_group |-> update_uniform(sbg, uniform)]

\* A refresh that assigns the delta to the time field.
refresh_uniform_assign_time(cam, sbg, tm) ==
    Bind(view_proj_matrix(cam), LAMBDA vp :
    Bind(look_dir(vp.self), LAMBDA dir :
        LET uniform == [sbg.uniform EXCEPT
                           !.view_proj_matrix = vp.ret,
                           !.camera_dir       = dir.ret,
                           !.camera_pos       = dir.self.position,
                           !.camera_near      = dir.self.near_plane,
                           !.camera_far       = dir.self.far_plane,
                           !.time             = tm.delta]
        IN  [camera           |-> dir.self,
             scene_bind_group |-> update_uniform(sbg, uniform)]))

\* render, lines 230-242: the scene uniform is refreshed from the camera and
\* the time source and written to the GPU buffer.  Yields the camera and the
\* scene bind group after the step.
refresh_uniform(cam, sbg, tm) ==
    Bind(view_proj_matrix(cam), LAMBDA vp :
    Bind(look_dir(vp.self), LAMBDA dir :
        LET uniform == [sbg.uniform EXCEPT
                           !.view_proj_matrix = vp.ret,
                           !.camera_dir       = dir.ret,
                           !.camera_pos       = dir.self.position,
                           !.camera_near      = dir.self.near_plane,
                           !.camera_far       = dir.self.far_plane,
                           !.time             = Add(@, tm.delta)]
        IN  [camera           |-> dir.self,
             scene_bind_group |-> update_uniform(sbg, uniform)]))

\* clear_surface: one render pass that clears the color and depth targets.
clear_surface(encoder, settings, context) ==
    Append(encoder,
           [op |-> "clear", color_view |-> context.surface_view,
            color |-> settings.clear_color,
            depth_view |-> context.depth_view, depth |-> 1])

\* A pass that clears its targets when it begins.
Renderer_render_clearing(renderer, encoder, context) ==
    Append(encoder,
           [op |-> "draw", renderer |-> renderer,
            color_view |-> context.surface_view, load |-> "Clear",
            depth_view |-> IF renderer.name = "SkyboxRenderer" THEN None
                           ELSE Some(context.depth_view),
            bind_group |-> context.scene_bind_group])

\* Renderer::render: one render pass on the context's targets that loads
\* their contents, binds the scene bind group at slot 0 and draws.  The
\* skybox pass has no depth attachment.
Renderer_render(renderer, encoder, context) ==
    Append(encoder,
           [op |-> "draw", renderer |-> renderer,
            color_view |-> context.surface_view, load |-> "Load",
            depth_view |-> IF renderer.name = "SkyboxRenderer" THEN None
                           ELSE Some(context.depth_view),
            bind_group |-> context.scene_bind_group])

\* A skybox pass that moves the camera to take its matrices.
Renderer_camera_moving(renderer, cam) ==
    IF renderer.name = "SkyboxRenderer"
    THEN view_matrix(proj_matrix(set_position(cam, Vec3_Z)).self).self
    ELSE cam

\* Renderer::render, its use of the camera: SkyboxRenderer calls
\* camera.proj_matrix() and then camera.view_matrix(); the other renderers
\* do not touch the camera.
Renderer_camera(renderer, cam) ==
    IF renderer.name = "SkyboxRenderer"
    THEN Bind(proj_matrix(cam), LAMBDA p : view_matrix(p.self).self)
    ELSE cam

\* The camera after the renderers of a list have rendered.
RECURSIVE render_all_camera(_, _)
render_all_camera(renderers, cam) ==
    IF renderers = <<>> THEN cam
    ELSE Bind(Renderer_camera(Head(renderers), cam), LAMBDA c :
             render_all_camera(Tail(renderers), c))

\* for renderer in renderers { renderer.render(&mut context) }
RECURSIVE render_all(_, _, _)
render_all(renderers, encoder, context) ==
    IF renderers = <<>> THEN encoder
    ELSE render_all(Tail(renderers),
                    Renderer_render(Head(renderers), encoder, context),
                    context)

\* A frame that takes the opaque snapshot after the TRANSPARENT stage.
encode_frame_late_snapshot(encoder, settings, context, surface_texture, depth, sbg, by_stage) ==
    LET cleared == clear_surface(encoder, settings, context)
        opaque == render_all(by_stage["OPAQUE"], cleared, context)
        transparent == render_all(by_stage["TRANSPARENT"], opaque, context)
        copied_color ==
            copy_textures_2d(transparent, surface_texture, sbg.opaque_texture)
    IN  copy_textures_2d(copied_color, depth, sbg.opaque_depth_texture)

\* render, lines 255-282: what the frame records into its command encoder.
encode_frame(encoder, settings, context, surface_texture, depth, sbg, by_stage) ==
    LET cleared == clear_surface(encoder, settings, context)
        opaque == render_all(by_stage["OPAQUE"], cleared, context)
        copied_color ==
            copy_textures_2d(opaque, surface_texture, sbg.opaque_texture)
        copied_depth ==
            copy_textures_2d(copied_color, depth, sbg.opaque_depth_texture)
    IN  render_all(by_stage["TRANSPARENT"], copied_depth, context)

\* A frame that presents the surface image before it submits the commands.
frame_steps_present_first(commands) ==
    << [op |-> "get_current_texture"], [op |-> "create_command_encoder"],
       [op |-> "update_uniform"], [op |-> "bind_group"] >>
    \o commands \o << [op |-> "present"], [op |-> "submit"] >>

\* render, lines 218-288: the steps of a frame in the order of the code; the
\* commands are those the frame records between bind_group() and submit().
frame_steps(commands) ==
    << [op |-> "get_current_texture"], [op |-> "create_command_encoder"],
       [op |-> "update_uniform"], [op |-> "bind_group"] >>
    \o commands \o << [op |-> "submit"], [op |-> "present"] >>

\* render, lines 222-290: the frame, once a surface image is acquired.
render_frame ==
    \E refreshed \in {refresh_uniform(camera, scene_bind_group,
                                      time_manager)} :
    \E bg \in {bind_group(refreshed.scene_bind_group)} :
        LET surface_texture ==
                [id |-> "surface", format |-> surface_config.format,
                 width |-> surface_config.width,
                 height |-> surface_config.height,
                 usage |-> {"RENDER_ATTACHMENT", "COPY_SRC"}]
            context ==
                [surface_view     |-> create_view(surface_texture),
                 depth_view       |-> depth_view,
                 scene_bind_group |-> bg.ret]
            commands ==
                encode_frame(<<>>, RenderSettings_default, context,
                             surface_texture, depth_texture, bg.self,
                             renderers_by_stage)
        IN  /\ refreshed.scene_bind_group.uniform.time[1] <= MaxTime
            /\ camera' =
                   IF Stages \subseteq DOMAIN renderers_by_stage
                   THEN render_all_camera(
                            renderers_by_stage["TRANSPARENT"],
                            render_all_camera(renderers_by_stage["OPAQUE"],
                                              refreshed.camera))
                   ELSE refreshed.camera
            /\ scene_bind_group' = bg.self
            /\ call' =
                   IF Stages \subseteq DOMAIN renderers_by_stage
                   THEN [op |-> "render", result |-> "Ok",
                         acquire_attempts |-> 1, acquired |-> TRUE,
                         encoders_created |-> 1,
                         renderer_calls |->
                             Len(renderers_by_stage["OPAQUE"])
                             + Len(renderers_by_stage["TRANSPARENT"]),
                         bind_group |-> bg.ret,
                         bind_group_created |-> bg.created,
                         submitted |-> <<commands>>, presented |-> 1,
                         steps |-> frame_steps(commands)]
                   \* renderers_by_stage.get_mut(&stage).unwrap() on a
                   \* missing bucket panics: the frame is never submitted.
                   ELSE [op |-> "render", result |-> "panic",
                         acquire_attempts |-> 1, acquired |-> TRUE,
                         encoders_created |-> 1, renderer_calls |-> 0,
                         bind_group |-> bg.ret,
                         bind_group_created |-> bg.created,
                         submitted |-> <<>>, presented |-> 0,
                         steps |-> <<[op |-> "get_current_texture"]>>]
            /\ UNCHANGED <<surface_config, depth_texture, depth_view,
                           renderers_by_stage, time_manager, cam_call>>

\* A render that refreshes the scene uniform before it acquires the image.
render_refresh_first(acquired) ==
    IF ~acquired
    THEN \E refreshed \in {refresh_uniform(camera, scene_bind_group,
                                           time_manager)} :
            /\ refreshed.scene_bind_group.uniform.time[1] <= MaxTime
            /\ camera' = refreshed.camera
            /\ scene_bind_group' = refreshed.scene_bind_group
            /\ call' = [op |-> "render", result |-> "Err",
                        acquire_attempts |-> 1, acquired |-> FALSE,
                        encoders_created |-> 0, renderer_calls |-> 0,
                        submitted |-> <<>>, presented |-> 0,
                        steps |-> <<[op |-> "get_current_texture"]>>]
            /\ UNCHANGED <<surface_config, depth_texture, depth_view,
                           renderers_by_stage, time_manager, cam_call>>
    ELSE render_frame

\* render(time_manager); acquired tells whether get_current_texture() gave
\* an image.
render(acquired) ==
    IF ~acquired
    THEN /\ call' = [op |-> "render", result |-> "Err",
                     acquire_attempts |-> 1, acquired |-> FALSE,
                     encoders_created |-> 0, renderer_calls |-> 0,
                     submitted |-> <<>>, presented |-> 0,
                     steps |-> <<[op |-> "get_current_texture"]>>]
         /\ UNCHANGED <<surface_config, depth_texture, depth_view, camera,
                        scene_bind_group, renderers_by_stage, time_manager,
                        cam_call>>
    ELSE render_frame

\* ---------------------------------------------------------------- actions
AddRenderer ==
    \E renderer \in Renderers :
        /\ Len(renderers_by_stage["OPAQUE"])
           + Len(renderers_by_stage["TRANSPARENT"]) < MaxRenderers
        /\ add_renderer(renderer)
        /\ UNCHANGED app

HandleResize ==
    /\ \E width \in Widths, height \in Heights : handle_resize(width, height)
    /\ UNCHANGED app

Render ==
    /\ \E acquired \in BOOLEAN : render(acquired)
    /\ UNCHANGED app

TimeManagerUpdate ==
    \E elapsed_ms \in ElapsedMs :
        /\ time_manager' = TimeManager_update(time_manager, elapsed_ms)
        /\ call' = [op |-> "update", elapsed_ms |-> elapsed_ms]
        /\ UNCHANGED <<surface_config, depth_texture, depth_view, camera,
                       scene_bind_group, renderers_by_stage, cam_call, app>>

Next ==
    \/ AddRenderer
    \/ HandleResize
    \/ Render
    \/ TimeManagerUpdate

Spec == Init /\ [][Next]_vars

\* ------------------------------------------------- properties of a frame
\* The last call rendered a frame; its command buffer.
Rendered == call.op = "render" /\ call.acquired

FrameCommands == call.submitted[1]

IsDraw(c, stage) == c.op = "draw" /\ c.renderer.stage = stage

IsCopy(c, source_id, target) ==
    c.op = "copy" /\ c.source.id = source_id /\ c.target = target

\* The renderers a frame invoked for a stage, in the order of the calls.
RECURSIVE Drawn(_, _)
Drawn(cmds, stage) ==
    IF cmds = <<>> THEN <<>>
    ELSE IF IsDraw(Head(cmds), stage)
         THEN <<Head(cmds).renderer>> \o Drawn(Tail(cmds), stage)
         ELSE Drawn(Tail(cmds), stage)

\* C1: in every frame that acquired a surface image, the frame records
\* exactly two copies, the color snapshot and right after it the depth
\* snapshot; every draw of an OPAQUE renderer comes before them and every
\* draw of a TRANSPARENT renderer after them, and each registered renderer
\* has its draw, for any number of renderers in each stage.
C1_OpaqueSnapshotTransparent ==
    Rendered =>
        LET cmds == FrameCommands
            n == Len(cmds)
        IN  \E i \in 1..n :
                /\ i + 1 <= n
                /\ IsCopy(cmds[i], "surface", scene_bind_group.opaque_texture)
                /\ IsCopy(cmds[i + 1], depth_texture.id,
                          scene_bind_group.opaque_depth_texture)
                /\ \A k \in 1..n :
                       /\ cmds[k].op = "copy" => k \in {i, i + 1}
                       /\ IsDraw(cmds[k], "OPAQUE") => k < i
                       /\ IsDraw(cmds[k], "TRANSPARENT") => k > i + 1
                /\ Len(Drawn(cmds, "OPAQUE"))
                       = Len(renderers_by_stage["OPAQUE"])
                /\ Len(Drawn(cmds, "TRANSPARENT"))
                       = Len(renderers_by_stage["TRANSPARENT"])

C1_Witness ==
    /\ Rendered
    /\ Len(renderers_by_stage["OPAQUE"]) >= 1
    /\ Len(renderers_by_stage["TRANSPARENT"]) >= 1

\* A step of add_renderer(r) appends r to the list of r.stage.
C2_AppendStep ==
    \A r \in Renderers :
        (call'.op = "add_renderer" /\ add_renderer(r)) =>
            /\ renderers_by_stage'[r.stage]
                   = Append(renderers_by_stage[r.stage], r)
            /\ \A s \in Stages \ {r.stage} :
                   renderers_by_stage'[s] = renderers_by_stage[s]
            /\ DOMAIN renderers_by_stage' = Stages

C2_FrameOrder ==
    Rendered =>
        \A s \in Stages : Drawn(FrameCommands, s) = renderers_by_stage[s]

\* C2: add_renderer appends the renderer to the list of its stage, also when
\* an equal renderer is already there, and leaves the other list unchanged;
\* a rendered frame invokes the renderers of each stage exactly once each, in
\* the order of the list.
C2_RegistrationOrder == [][C2_AppendStep]_vars /\ []C2_FrameOrder

C2_Witness ==
    /\ Rendered
    /\ \E s \in Stages :
           /\ Len(renderers_by_stage[s]) = 2
           /\ renderers_by_stage[s][1] = renderers_by_stage[s][2]

\* A step of handle_resize with a zero dimension.
C3_ZeroResizeStep ==
    \A w \in Widths, h \in Heights :
        ((w = 0 \/ h = 0) /\ call'.op = "handle_resize"
                           /\ handle_resize(w, h)) =>
            /\ UNCHANGED <<surface_config, depth_texture, depth_view,
                           scene_bind_group, camera>>
            /\ call'.panicked = FALSE

\* C3: handle_resize with a zero width or a zero height changes nothing and
\* does not panic: the surface configuration, the depth texture and its view,
\* the opaque snapshot textures, the cached bind group, the scene uniform and
\* the camera (aspect ratio and stale flag included) keep their values.
C3_ZeroResizeNoOp == [][C3_ZeroResizeStep]_vars

C3_Witness ==
    /\ call.op = "handle_resize"
    /\ call.width = 0 \/ call.height = 0
    /\ ~camera.is_dirty
    /\ scene_bind_group.bind_group # None

HasSize(t, w, h) == t.width = w /\ t.height = h

\* C4: after handle_resize(W, H) with W > 0 and H > 0 the camera's aspect
\* ratio is exactly W / H, and the surface configuration, the depth texture
\* and both opaque snapshot textures are W x H.
C4_ResizeExact ==
    (call.op = "handle_resize" /\ call.width > 0 /\ call.height > 0) =>
        /\ camera.aspect_ratio[2] > 0
        /\ camera.aspect_ratio[1] * call.height
               = camera.aspect_ratio[2] * call.width
        /\ HasSize(surface_config, call.width, call.height)
        /\ HasSize(depth_texture, call.width, call.height)
        /\ HasSize(scene_bind_group.opaque_texture, call.width, call.height)
        /\ HasSize(scene_bind_group.opaque_depth_texture,
                   call.width, call.height)

C4_Witness ==
    /\ call.op = "handle_resize"
    /\ call.width = 800
    /\ call.height = 600
    /\ depth_texture.id # 1

\* C5: in every state the depth texture and both opaque snapshots have the
\* size of the surface configuration, and both copies of every frame have a
\* source, a target and an extent of that one size.
C5_TargetsMatchSurface ==
    /\ \A t \in {depth_texture, scene_bind_group.opaque_texture,
                 scene_bind_group.opaque_depth_texture} :
           HasSize(t, surface_config.width, surface_config.height)
    /\ Rendered =>
           \A k \in 1..Len(FrameCommands) :
               FrameCommands[k].op = "copy" =>
                   /\ HasSize(FrameCommands[k].source,
                              FrameCommands[k].extent[1],
                              FrameCommands[k].extent[2])
                   /\ HasSize(FrameCommands[k].target,
                              FrameCommands[k].extent[1],
                              FrameCommands[k].extent[2])
                   /\ HasSize(surface_config,
                              FrameCommands[k].extent[1],
                              FrameCommands[k].extent[2])

C5_Witness ==
    /\ Rendered
    /\ surface_config.width = 400
    /\ depth_texture.id # 1

\* The cached bind group after a resize, in a frame, and across a render.
C6_DroppedByResize ==
    (call.op = "handle_resize" /\ call.width > 0 /\ call.height > 0) =>
        scene_bind_group.bind_group = None

C6_FrameBindGroup ==
    Rendered =>
        /\ scene_bind_group.bind_group = Some(call.bind_group)
        /\ call.bind_group.opaque_view.texture
               = scene_bind_group.opaque_texture.id
        /\ call.bind_group.opaque_depth_view.texture
               = scene_bind_group.opaque_depth_texture.id
        /\ \A k \in 1..Len(FrameCommands) :
               FrameCommands[k].op = "draw" =>
                   FrameCommands[k].bind_group = call.bind_group

C6_RenderStep ==
    (call'.op = "render" /\ call'.acquired /\ render(TRUE)) =>
        IF scene_bind_group.bind_group = None
        THEN call'.bind_group_created
        ELSE /\ ~call'.bind_group_created
             /\ call'.bind_group = scene_bind_group.bind_group[1]
             /\ scene_bind_group'.bind_group = scene_bind_group.bind_group

\* C6: a non-zero handle_resize leaves no cached bind group; the bind group a
\* frame hands to its passes is the cached one and refers to the current
\* opaque snapshot textures; a render that finds a cached bind group returns
\* it without building one, and a render that finds none builds one.
C6_BindGroupCache ==
    /\ []C6_DroppedByResize
    /\ []C6_FrameBindGroup
    /\ [][C6_RenderStep]_vars

C6_Witness ==
    /\ Rendered
    /\ call.bind_group_created
    /\ scene_bind_group.opaque_texture.id # 2
    /\ renderers_by_stage["TRANSPARENT"] # <<>>

\* A step of render() whose image acquisition fails.
C10_FailedRenderStep ==
    (call'.op = "render" /\ ~call'.acquired /\ render(FALSE)) =>
        /\ UNCHANGED <<surface_config, depth_texture, depth_view, camera,
                       scene_bind_group, renderers_by_stage, time_manager>>
        /\ call'.result = "Err"
        /\ call'.acquire_attempts = 1
        /\ call'.encoders_created = 0
        /\ call'.renderer_calls = 0
        /\ call'.submitted = <<>>
        /\ call'.presented = 0

\* C10: a render whose image acquisition fails returns an error after one
\* attempt and changes nothing: the scene uniform and its buffer, the camera
\* and the targets keep their values, no encoder is created, no renderer is
\* invoked, nothing is submitted or presented.
C10_FailedRenderNoEffect == [][C10_FailedRenderStep]_vars

C10_Witness ==
    /\ call.op = "render"
    /\ ~call.acquired
    /\ time_manager.delta # Num(0)
    /\ camera.is_dirty
    /\ renderers_by_stage["OPAQUE"] # <<>>

\* The positions of the steps named op in the last render call.
StepsOf(op) == {k \in 1..Len(call.steps) : call.steps[k].op = op}

\* C11: a render that acquired a surface image runs to completion: it
\* submits the recorded commands exactly once, as one command buffer, presents
\* the surface image exactly once, after the submit and as its last step, and
\* returns Ok; a render returns an error exactly when acquisition failed, and
\* then it stops right after the acquisition.
C11_FrameRunsToCompletion ==
    call.op = "render" =>
        /\ call.acquired =>
               /\ call.result = "Ok"
               /\ Len(call.submitted) = 1
               /\ call.presented = 1
               /\ Cardinality(StepsOf("submit")) = 1
               /\ StepsOf("present") = {Len(call.steps)}
               /\ StepsOf("submit") = {Len(call.steps) - 1}
               /\ \A k \in 1..Len(FrameCommands) :
                      call.steps[4 + k] = FrameCommands[k]
        /\ ~call.acquired =>
               /\ call.result = "Err"
               /\ call.steps = <<[op |-> "get_current_texture"]>>
        /\ call.result \in {"Ok", "Err"}

C11_Witness ==
    /\ Rendered
    /\ call.result = "Ok"
    /\ Len(FrameCommands) >= 5

\* A step of any operation, seen from the scene uniform's time field.
C12_TimeStep ==
    /\ Le(Num(0), time_manager.delta)
    /\ Le(scene_bind_group.uniform.time, scene_bind_group'.uniform.time)
    /\ scene_bind_group'.uniform.time =
           IF call'.op = "render" /\ call'.acquired
           THEN Add(scene_bind_group.uniform.time, time_manager.delta)
           ELSE scene_bind_group.uniform.time

\* C12: the scene uniform's time never decreases: a successful render adds
\* the time source's delta, which is never negative; handle_resize,
\* add_renderer, a failed render and the time source's update leave it as
\* it is.
C12_TimeNeverDecreases == [][C12_TimeStep]_vars

C12_Witness ==
    /\ call.op = "handle_resize"
    /\ call.width > 0 /\ call.height > 0
    /\ scene_bind_group.uniform.time[1] > 0

\* C14: both stage buckets exist in every state, whatever add_renderer calls
\* were made, and a render with no renderer in the OPAQUE stage, in the
\* TRANSPARENT stage or in both does not panic and still records the clear
\* and both snapshot copies, submits and presents.
C14_EmptyStagesRender ==
    /\ Stages \subseteq DOMAIN renderers_by_stage
    /\ (call.op = "render" /\ call.acquired) =>
           /\ call.result = "Ok"
           /\ Cardinality(StepsOf("clear")) = 1
           /\ Cardinality(StepsOf("copy")) = 2
           /\ Cardinality(StepsOf("submit")) = 1
           /\ Cardinality(StepsOf("present")) = 1
           /\ Cardinality(StepsOf("draw")) =
                  Len(renderers_by_stage["OPAQUE"])
                  + Len(renderers_by_stage["TRANSPARENT"])

C14_Witness ==
    /\ Rendered
    /\ renderers_by_stage["OPAQUE"] = <<>>
    /\ renderers_by_stage["TRANSPARENT"] # <<>>

\* The raw parameters of a camera.
RawParameters(cam) ==
    <<cam.position, cam.rotation, cam.fov, cam.aspect_ratio, cam.near_plane,
      cam.far_plane>>

\* C15: no renderer changes the camera's raw parameters or the scene
\* uniform: after a rendered frame the camera has the position, rotation,
\* fov, aspect ratio, near and far it had before the frame, which are the ones
\* the uniform was refreshed from, and the scene uniform is the refreshed one.
C15_RenderersLeaveCameraAndUniform ==
    [][ (call'.op = "render" /\ call'.acquired) =>
            \E r \in {refresh_uniform(camera, scene_bind_group,
                                      time_manager)} :
                /\ RawParameters(camera') = RawParameters(camera)
                /\ RawParameters(camera') = RawParameters(r.camera)
                /\ scene_bind_group'.uniform = r.scene_bind_group.uniform
                /\ scene_bind_group'.uniform.camera_pos = camera'.position
                /\ scene_bind_group'.uniform.camera_near = camera'.near_plane
                /\ scene_bind_group'.uniform.camera_far = camera'.far_plane ]_vars

C15_Witness ==
    /\ Rendered
    /\ \E k \in StepsOf("draw") :
           call.steps[k].renderer.name = "SkyboxRenderer"
    /\ \E k \in StepsOf("draw") :
           call.steps[k].renderer.name = "MeshRenderer"

\* C20: in every rendered frame the scene uniform is refreshed from the
\* camera, and the clear of the color and depth targets, with the configured
\* clear color and depth 1, is recorded exactly once, after the refresh and
\* before every renderer; every renderer's pass loads its targets.
C20_RefreshAndClearFirst ==
    Rendered =>
        /\ ~camera.is_dirty
        /\ scene_bind_group.uniform.view_proj_matrix = camera.view_proj_matrix
        /\ scene_bind_group.uniform.camera_dir = camera.look_dir
        /\ scene_bind_group.uniform.camera_pos = camera.position
        /\ \E u \in StepsOf("update_uniform"), c \in StepsOf("clear") :
               /\ StepsOf("update_uniform") = {u}
               /\ StepsOf("clear") = {c}
               /\ u < c
               /\ \A k \in StepsOf("draw") \cup StepsOf("copy") : c < k
               /\ call.steps[c].color = RenderSettings_default.clear_color
               /\ call.steps[c].depth = 1
               /\ call.steps[c].color_view.texture = "surface"
               /\ call.steps[c].depth_view = depth_view
        /\ \A k \in StepsOf("draw") : call.steps[k].load = "Load"

C20_Witness ==
    /\ Rendered
    /\ Cardinality(StepsOf("draw")) = 2
    /\ scene_bind_group.uniform.view_proj_matrix # Mat4_IDENTITY

\* ------------------------------------------------- RenderManager::new
\* The longest list of formats or of present modes a surface reports.
MaxCapabilities == 3

TextureFormats == {"Bgra8Unorm", "Bgra8UnormSrgb", "Rgba8UnormSrgb"}

PresentModes == {"Fifo", "AutoVsync"}

\* TextureFormat::is_srgb
is_srgb(format) == format \in {"Bgra8UnormSrgb", "Rgba8UnormSrgb"}

\* The non-empty lists over a set, up to MaxCapabilities long: what
\* Surface::get_capabilities reports for an adapter compatible with the
\* surface.
Capabilities(S) ==
    UNION {[1..n -> S] : n \in 1..MaxCapabilities}

\* A create_surface_config that takes the last sRGB format of the list.
create_surface_config_last_srgb(formats, present_modes, width, height) ==
    LET srgb  == SelectSeq(formats, is_srgb)
        vsync == SelectSeq(present_modes, LAMBDA m : m = "AutoVsync")
    IN  [usage        |-> {"RENDER_ATTACHMENT", "COPY_SRC"},
         format       |-> IF srgb # <<>> THEN srgb[Len(srgb)]
                          ELSE formats[1],
         width        |-> width,
         height       |-> height,
         present_mode |-> IF vsync # <<>> THEN Head(vsync)
                          ELSE present_modes[1]]

\* create_surface_config: formats.iter().filter(is_srgb).next()
\* .unwrap_or(formats[0]), and the same for AutoVsync among present_modes.
create_surface_config(formats, present_modes, width, height) ==
    LET srgb  == SelectSeq(formats, is_srgb)
        vsync == SelectSeq(present_modes, LAMBDA m : m = "AutoVsync")
    IN  [usage        |-> {"RENDER_ATTACHMENT", "COPY_SRC"},
         format       |-> IF srgb # <<>> THEN Head(srgb) ELSE formats[1],
         width        |-> width,
         height       |-> height,
         present_mode |-> IF vsync # <<>> THEN Head(vsync)
                          ELSE present_modes[1]]

\* A create_wgpu_objects that goes on when the device request is rejected.
create_wgpu_objects_unchecked(adapter_ok, device_ok) ==
    IF ~adapter_ok
    THEN [result |-> "Err", steps |-> <<"request_adapter">>]
    ELSE [result |-> "Ok", steps |-> <<"request_adapter", "request_device">>]

\* create_wgpu_objects: request_adapter(..).ok_or(..)?, then
\* request_device(..).map_err(..)?.
create_wgpu_objects(adapter_ok, device_ok) ==
    IF ~adapter_ok
    THEN [result |-> "Err", steps |-> <<"request_adapter">>]
    ELSE IF ~device_ok
    THEN [result |-> "Err", steps |-> <<"request_adapter", "request_device">>]
    ELSE [result |-> "Ok", steps |-> <<"request_adapter", "request_device">>]

\* The state before RenderManager::new is called: no render manager, and
\* the outcomes the platform has in store for the call.
NewInit ==
    /\ \E surface_ok \in BOOLEAN, adapter_ok \in BOOLEAN,
          device_ok \in BOOLEAN,
          formats \in Capabilities(TextureFormats),
          present_modes \in Capabilities(PresentModes) :
            call = [op |-> "new_request", surface_ok |-> surface_ok,
                    adapter_ok |-> adapter_ok, device_ok |-> device_ok,
                    formats |-> formats, present_modes |-> present_modes]
    /\ surface_config = None
    /\ depth_texture = None
    /\ depth_view = None
    /\ camera = None
    /\ scene_bind_group = None
    /\ renderers_by_stage = None
    /\ time_manager = TimeManager_new
    /\ cam_call = [op |-> "new"]
    /\ app = App_new

\* RenderManager::new(settings, window) for a window of the given size.
RenderManager_try_new(surface_width, surface_height) ==
    \E objects \in {create_wgpu_objects(call.adapter_ok, call.device_ok)} :
        IF ~call.surface_ok
        THEN /\ call' = [op |-> "new", result |-> "Err", request |-> call,
                         steps |-> <<"create_surface">>]
             /\ UNCHANGED <<surface_config, depth_texture, depth_view,
                            camera, scene_bind_group, renderers_by_stage,
                            time_manager, cam_call>>
        ELSE IF objects.result = "Err"
        THEN /\ call' = [op |-> "new", result |-> "Err", request |-> call,
                         steps |-> <<"create_surface">> \o objects.steps]
             /\ UNCHANGED <<surface_config, depth_texture, depth_view,
                            camera, scene_bind_group, renderers_by_stage,
                            time_manager, cam_call>>
        ELSE
            LET config == create_surface_config(call.formats,
                              call.present_modes, surface_width,
                              surface_height)
                depth == create_texture_2d({}, DEPTH_FORMAT, surface_width,
                             surface_height,
                             {"RENDER_ATTACHMENT", "COPY_SRC"})
                opaque == create_texture_2d({depth.id}, config.format,
                              surface_width, surface_height,
                              {"TEXTURE_BINDING", "COPY_DST"})
                opaque_depth == create_texture_2d({depth.id, opaque.id},
                                    DEPTH_FORMAT, surface_width,
                                    surface_height,
                                    {"TEXTURE_BINDING", "COPY_DST"})
            IN  /\ surface_config' = config
                /\ depth_texture' = depth
                /\ depth_view' = create_view(depth)
                /\ scene_bind_group' = SceneBindGroup_new(opaque, opaque_depth)
                /\ renderers_by_stage' = renderers_by_stage_new
                /\ camera' = Camera_new(Vec3_ZERO, Quat_IDENTITY,
                                 RenderSettings_default.camera_fov,
                                 aspect_ratio_of(surface_width,
                                                 surface_height),
                                 RenderSettings_default.camera_near_plane,
                                 RenderSettings_default.camera_far_plane)
                /\ call' = [op |-> "new", result |-> "Ok",
                            request |-> call,
                            steps |-> <<"create_surface">> \o objects.steps
                                \o <<"get_capabilities", "configure",
                                     "create_texture", "create_texture",
                                     "create_texture">>]
                /\ UNCHANGED <<time_manager, cam_call>>

New ==
    /\ call.op = "new_request"
    /\ \E surface_width \in Widths \ {0}, surface_height \in Heights \ {0} :
           RenderManager_try_new(surface_width, surface_height)
    /\ UNCHANGED app

SpecNew == NewInit /\ [][New]_vars

\* C17: RenderManager::new returns an error, and no render manager, exactly
\* when surface creation fails, no adapter is found or the device request is
\* rejected; it stops at the first failing step, and configures no surface
\* and creates no texture.
C17_NewFailsAtFirstFailingStep ==
    call.op = "new" =>
        LET q == call.request
        IN  /\ call.result = "Err"
                   <=> ~(q.surface_ok /\ q.adapter_ok /\ q.device_ok)
            /\ call.result = "Err" =>
                   /\ call.steps =
                          IF ~q.surface_ok THEN <<"create_surface">>
                          ELSE IF ~q.adapter_ok
                          THEN <<"create_surface", "request_adapter">>
                          ELSE <<"create_surface", "request_adapter",
                                 "request_device">>
                   /\ surface_config = None
                   /\ depth_texture = None
                   /\ depth_view = None
                   /\ camera = None
                   /\ scene_bind_group = None
                   /\ renderers_by_stage = None
            /\ call.result = "Ok" =>
                   /\ surface_config # None
                   /\ depth_texture # None
                   /\ scene_bind_group # None
                   /\ \E k \in 1..Len(call.steps) :
                          call.steps[k] = "configure"

C17_Witness ==
    /\ call.op = "new"
    /\ call.result = "Err"
    /\ call.request.surface_ok
    /\ call.request.adapter_ok
    /\ ~call.request.device_ok

\* C18: the surface format chosen by new is the first sRGB format of the
\* list of supported formats, or the list's first format when it has no
\* sRGB format; the present mode is AutoVsync when the list of supported
\* modes contains it, else the list's first mode.
C18_PreferredFormatAndMode ==
    (call.op = "new" /\ call.result = "Ok") =>
        LET formats == call.request.formats
            modes   == call.request.present_modes
            srgb    == {i \in DOMAIN formats : is_srgb(formats[i])}
        IN  /\ IF srgb = {}
               THEN surface_config.format = formats[1]
               ELSE \E i \in srgb :
                        /\ \A j \in srgb : i <= j
                        /\ surface_config.format = formats[i]
            /\ IF \E i \in DOMAIN modes : modes[i] = "AutoVsync"
               THEN surface_config.present_mode = "AutoVsync"
               ELSE surface_config.present_mode = modes[1]

C18_Witness ==
    /\ call.op = "new"
    /\ call.result = "Ok"
    /\ call.request.formats
           = <<"Bgra8Unorm", "Rgba8UnormSrgb", "Bgra8UnormSrgb">>
    /\ call.request.present_modes = <<"Fifo", "AutoVsync">>
    /\ surface_config.format = "Rgba8UnormSrgb"

\* ------------------------------------------------------- App, the tick loop
\* The renderers App::new registers, in this order.  WaterRenderer records
\* the same kind of pass as MeshRenderer and stands under its name.
AppRenderers == <<"SkyboxRenderer", "MeshRenderer", "MeshRenderer">>

\* Keys of the keyboard events.
Keys == {"KeyW"}

\* Cursor positions of the pointer-move events: half a turn of yaw apart.
CursorPositions == {<<Num(0), Num(0)>>, <<Num(1800), Num(0)>>}

\* The tick loop is delivered at most MaxResizes Resized events of a
\* non-empty size.
MaxResizes == 1

\* Milliseconds that pass between two callbacks of the event loop.
WaitMs == {0, 20}

\* The events winit hands to the closure of App::run.  A Resized event of
\* the tick loop is that of a minimized window or halves the window's
\* width.  CursorEntered is left out: its handler,
\* InputManager::handle_cursor_enter, is not part of input_manager.rs.
Events ==
    {[type |-> "CloseRequested"], [type |-> "AboutToWait"]}
    \cup [type : {"Resized"}, width : {0, 400}, height : {600}]
    \cup [type : {"KeyboardInput"}, key : Keys,
          state : {"Pressed", "Released"}]
    \cup [type : {"CursorMoved"}, position : CursorPositions]

\* A gate that lets every update run a tick.
gate_passes_always(since_render_ms) == TRUE

\* t > self.min_render_time, for t the seconds since last_render_time.
gate_passes(since_render_ms) ==
    ~Le(F32(since_render_ms, 1000),
        Div(Num(1), Num(AppSettings_default.target_frame_rate)))

\* An update that goes on to the next callback after a failed render.
update_next_retry(at, ok) ==
    CASE at = "update" ->
             IF ok THEN "time_manager.update" ELSE "handle_event"
      [] at = "time_manager.update" -> "camera_controller.update"
      [] at = "camera_controller.update" -> "render"
      [] at = "render" -> IF ok THEN "late_update" ELSE "handle_event"
      [] at = "late_update" -> "handle_event"

\* An update that renders before it updates the time source.
update_next_render_first(at, ok) ==
    CASE at = "update" -> IF ok THEN "render" ELSE "handle_event"
      [] at = "render" -> IF ok THEN "time_manager.update" ELSE "panicked"
      [] at = "time_manager.update" -> "camera_controller.update"
      [] at = "camera_controller.update" -> "late_update"
      [] at = "late_update" -> "handle_event"

\* App::update, lines 148-166: the statement that follows statement at; ok
\* is the outcome of the gate, or of render (expect panics on an Err).
update_next(at, ok) ==
    CASE at = "update" ->
             IF ok THEN "time_manager.update" ELSE "handle_event"
      [] at = "time_manager.update" -> "camera_controller.update"
      [] at = "camera_controller.update" -> "render"
      [] at = "render" -> IF ok THEN "late_update" ELSE "panicked"
      [] at = "late_update" -> "handle_event"

RenderersAdded ==
    Len(renderers_by_stage["OPAQUE"]) + Len(renderers_by_stage["TRANSPARENT"])

\* App::new for the default settings, when the render manager is built.
AppInit ==
    /\ RenderManager_new(AppSettings_default.initial_size.width,
                         AppSettings_default.initial_size.height)
    /\ camera = Camera_new(Vec3_ZERO, Quat_IDENTITY,
                    RenderSettings_default.camera_fov,
                    aspect_ratio_of(AppSettings_default.initial_size.width,
                                    AppSettings_default.initial_size.height),
                    RenderSettings_default.camera_near_plane,
                    RenderSettings_default.camera_far_plane)
    /\ time_manager = TimeManager_new
    /\ call = [op |-> "new"]
    /\ cam_call = [op |-> "new"]
    /\ app = App_new

\* App::new, lines 84-95: the next add_renderer; the renderer states its
\* stage.
AppAddRenderer ==
    /\ app.at = "new"
    /\ \E stage \in Stages :
           add_renderer([name |-> AppRenderers[RenderersAdded + 1],
                         stage |-> stage])
    /\ app' = [app EXCEPT !.at = IF RenderersAdded + 1 = Len(AppRenderers)
                                 THEN "handle_event" ELSE "new"]

\* handle_event(event, elwt), after ms milliseconds of waiting.
AppHandleEvent ==
    /\ app.at = "handle_event"
    /\ \E event \in Events, ms \in WaitMs :
        /\ Add(scene_bind_group.uniform.time,
               Num(1000 * (app.since_update_ms + ms)))[1] <= MaxTime
        /\ (event.type = "Resized" /\ event.width # 0 /\ event.height # 0)
               => app.resizes < MaxResizes
        /\ \E waited \in {[app EXCEPT !.since_render_ms = @ + ms,
                                      !.since_update_ms = @ + ms,
                                      !.at = "update"]} :
            CASE event.type = "CloseRequested" ->
                     /\ app' = [waited EXCEPT !.exiting = TRUE]
                     /\ UNCHANGED <<surface_config, depth_texture,
                                    depth_view, camera, scene_bind_group,
                                    renderers_by_stage, time_manager, call,
                                    cam_call>>
              [] event.type = "Resized" ->
                     /\ handle_resize(event.width, event.height)
                     /\ app' = [waited EXCEPT !.resizes =
                                    IF event.width # 0 /\ event.height # 0
                                    THEN @ + 1 ELSE @]
              [] event.type = "KeyboardInput" ->
                     /\ app' = [waited EXCEPT !.input_manager =
                                    handle_keyboard_input(@, event.key,
                                                          event.state)]
                     /\ UNCHANGED <<surface_config, depth_texture,
                                    depth_view, camera, scene_bind_group,
                                    renderers_by_stage, time_manager, call,
                                    cam_call>>
              [] event.type = "CursorMoved" ->
                     /\ app' = [waited EXCEPT
                                    !.input_manager =
                                        handle_cursor_movement(
                                            @, event.position),
                                    !.moved = TRUE]
                     /\ UNCHANGED <<surface_config, depth_texture,
                                    depth_view, camera, scene_bind_group,
                                    renderers_by_stage, time_manager, call,
                                    cam_call>>
              [] OTHER ->
                     /\ app' = waited
                     /\ UNCHANGED <<surface_config, depth_texture,
                                    depth_view, camera, scene_bind_group,
                                    renderers_by_stage, time_manager, call,
                                    cam_call>>

\* update(), lines 149-152: the frame-pacing gate.
AppUpdate ==
    /\ app.at = "update"
    /\ app' = IF gate_passes(app.since_render_ms)
              THEN [app EXCEPT !.since_render_ms = 0,
                               !.at = update_next("update", TRUE),
                               !.tick = <<>>]
              ELSE [app EXCEPT !.at = update_next("update", FALSE)]
    /\ UNCHANGED <<surface_config, depth_texture, depth_view, camera,
                   scene_bind_group, renderers_by_stage, time_manager, call,
                   cam_call>>

\* update(), line 153: self.time_manager.update()
AppTimeManagerUpdate ==
    /\ app.at = "time_manager.update"
    /\ time_manager' = TimeManager_update(time_manager, app.since_update_ms)
    /\ call' = [op |-> "update", elapsed_ms |-> app.since_update_ms]
    /\ app' = [app EXCEPT !.since_update_ms = 0,
                          !.at = update_next("time_manager.update", TRUE),
                          !.tick = Append(@, "time_manager.update")]
    /\ UNCHANGED <<surface_config, depth_texture, depth_view, camera,
                   scene_bind_group, renderers_by_stage, cam_call>>

\* update(), lines 154-158: self.camera_controller.update(..)
AppCameraControllerUpdate ==
    /\ app.at = "camera_controller.update"
    /\ \E updated \in {CameraController_update(app.camera_controller,
                           time_manager, app.input_manager, camera)} :
           /\ camera' = updated.camera
           /\ app' = [app EXCEPT
                         !.camera_controller = updated.self,
                         !.at = update_next("camera_controller.update", TRUE),
                         !.tick = Append(@, "camera_controller.update")]
    /\ UNCHANGED <<surface_config, depth_texture, depth_view,
                   scene_bind_group, renderers_by_stage, time_manager, call,
                   cam_call>>

\* update(), lines 159-161: self.render_manager.render(..).expect(..)
AppRender ==
    /\ app.at = "render"
    /\ \E acquired \in BOOLEAN :
           /\ render(acquired)
           /\ app' = [app EXCEPT
                         !.at = update_next("render", call'.result = "Ok"),
                         !.tick = Append(@, "render")]

\* update(), line 163: self.input_manager.late_update()
AppLateUpdate ==
    /\ app.at = "late_update"
    /\ app' = [app EXCEPT !.input_manager = late_update(@),
                          !.moved = FALSE,
                          !.tick_cursor_pos =
                              app.input_manager.last_cursor_pos,
                          !.at = update_next("late_update", TRUE),
                          !.tick = Append(@, "late_update")]
    /\ UNCHANGED <<surface_config, depth_texture, depth_view, camera,
                   scene_bind_group, renderers_by_stage, time_manager, call,
                   cam_call>>

\* run(), lines 112-117: the event loop returns once elwt.exit() was called.
AppExit ==
    /\ app.at = "handle_event"
    /\ app.exiting
    /\ app' = [app EXCEPT !.at = "exited"]
    /\ UNCHANGED <<surface_config, depth_texture, depth_view, camera,
                   scene_bind_group, renderers_by_stage, time_manager, call,
                   cam_call>>

AppNext ==
    \/ AppAddRenderer
    \/ AppHandleEvent
    \/ AppUpdate
    \/ AppTimeManagerUpdate
    \/ AppCameraControllerUpdate
    \/ AppRender
    \/ AppLateUpdate
    \/ AppExit

SpecApp == AppInit /\ [][AppNext]_vars

\* ------------------------------------------------ claims about the tick
\* C13: the look delta the camera controller consumed in a tick is zero at
\* the start of the next tick, and from the end of the tick on, as long as no
\* pointer-move event arrived since that tick: late_update resets it after
\* every rendered frame, whether or not the pointer moved before the tick.
C13_LookDeltaResetEveryTick ==
    ~app.moved => app.input_manager.look_delta = Vec2_ZERO

\* A second tick starts, after ticks that consumed a non-zero look delta,
\* with no pointer-move event since the previous tick.
C13_Witness ==
    /\ app.at = "time_manager.update"
    /\ ~app.moved
    /\ app.camera_controller.rotation_angles # Vec2_ZERO
    /\ scene_bind_group.uniform.time # Num(0)
    /\ app.input_manager.look_delta = Vec2_ZERO

\* A step of the application, seen from a failing render.
C16_RenderErrorStep ==
    /\ (app.at = "render" /\ call'.op = "render" /\ call'.result # "Ok") =>
           /\ app'.at = "panicked"
           /\ app'.input_manager = app.input_manager
           /\ app'.camera_controller = app.camera_controller
           /\ UNCHANGED <<time_manager, camera, scene_bind_group>>
    /\ app.at # "panicked"

\* C16: when render returns an error during a tick, expect panics and the
\* tick loop is over: the application takes no further step, so the failure is
\* not retried and no time-source update, camera-controller update or render
\* follows.
C16_RenderErrorEndsTheLoop == [][C16_RenderErrorStep]_vars

\* The render of a second tick failed, after a first rendered frame.
C16_Witness ==
    /\ app.at = "panicked"
    /\ call.op = "render"
    /\ call.result = "Err"
    /\ scene_bind_group.uniform.time # Num(0)

\* The steps of a tick that renders a frame, in the order of App::update.
TickOrder ==
    <<"time_manager.update", "camera_controller.update", "render",
      "late_update">>

\* C19: a tick that passes the frame-pacing gate updates the time source,
\* then updates the camera controller, which writes its position and rotation
\* to the camera, then renders (the scene uniform is refreshed from the camera
\* and the time source, the frame is submitted and presented), then resets the
\* look delta; a tick that rendered a frame performed each of the four steps
\* exactly once, and a tick whose render failed stopped at the render.
C19_TickOrder ==
    /\ Len(app.tick) <= Len(TickOrder)
    /\ app.tick = SubSeq(TickOrder, 1, Len(app.tick))
    /\ app.at = "time_manager.update" => app.tick = <<>>
    /\ app.at = "camera_controller.update" =>
           /\ app.tick = SubSeq(TickOrder, 1, 1)
           /\ call.op = "update"
           /\ app.since_update_ms = 0
    /\ app.at = "render" =>
           /\ app.tick = SubSeq(TickOrder, 1, 2)
           /\ camera.position = app.camera_controller.position
           /\ camera.rotation =
                  controller_rotation(app.camera_controller.rotation_angles)
           /\ camera.is_dirty
    /\ app.at = "late_update" =>
           /\ app.tick = SubSeq(TickOrder, 1, 3)
           /\ call.op = "render" /\ call.result = "Ok"
           /\ Cardinality(StepsOf("update_uniform")) = 1
           /\ StepsOf("present") = {Len(call.steps)}
           /\ scene_bind_group.uniform.camera_pos
                  = app.camera_controller.position
           /\ ~camera.is_dirty
    /\ app.at = "panicked" =>
           /\ app.tick = SubSeq(TickOrder, 1, 3)
           /\ call.op = "render" /\ call.result = "Err"
    /\ (app.at \in {"handle_event", "update", "exited"} /\ app.tick # <<>>) =>
           /\ app.tick = TickOrder
           /\ app.input_manager.look_delta = Vec2_ZERO \/ app.moved

\* A second tick is complete; its controller update moved and turned the
\* camera.
C19_Witness ==
    /\ app.at = "handle_event"
    /\ app.tick = TickOrder
    /\ time_manager.delta # Num(0)
    /\ scene_bind_group.uniform.time
           = Add(time_manager.delta, time_manager.delta)
    /\ camera.position # Vec3_ZERO
    /\ camera.rotation # Quat_IDENTITY

\* ------------------------------------------------- Camera, as a public API
\* Values the camera's parameters are drawn from.  RenderSettings::default
\* gives fov 60, near 0.1, far 100; an 800 x 600 window gives aspect 4/3.
Positions == {Vec3_ZERO, <<Num(1), Num(0), Num(2)>>}

\* A half turn about the Y axis, as the quaternion q and as -q.
Rotations ==
    { <<Num(0), Num(1), Num(0), Num(0)>>,
      <<Num(0), Num(-1), Num(0), Num(0)>> }

Fovs == {60, 90}

AspectRatios == {F32(4, 3), F32(1, 1)}

NearPlanes == {F32(1, 10), F32(1, 2)}

FarPlanes == {F32(100, 1), F32(50, 1)}

Setters ==
    {"set_position", "set_rotation", "set_fov", "set_aspect_ratio",
     "set_near_plane", "set_far_plane"}

Getters == {"look_dir", "view_matrix", "proj_matrix", "view_proj_matrix"}

\* The record of a setter call: whether it changed the parameter's value and,
\* when the call right before it was view_proj_matrix(), what that returned.
SetterCall(op, changed) ==
    [op |-> op, changed |-> changed,
     before |-> IF cam_call.op = "view_proj_matrix"
                THEN Some(cam_call.ret) ELSE None]

\* The record of a getter call: what it returned, whether it recomputed the
\* derived values, which call came right before it and, when that was a
\* setter, whether the setter changed the parameter's value.
GetterCall(op, r) ==
    [op |-> op, ret |-> r.ret, recomputed |-> r.recomputed,
     prev |-> cam_call.op,
     changed |-> (cam_call.op \in Setters /\ cam_call.changed)]

SetPosition ==
    \E v \in Positions :
        /\ camera' = set_position(camera, v)
        /\ cam_call' = SetterCall("set_position", v # camera.position)
        /\ UNCHANGED rm_vars

SetRotation ==
    \E v \in Rotations :
        /\ camera' = set_rotation(camera, v)
        /\ cam_call' = SetterCall("set_rotation", v # camera.rotation)
        /\ UNCHANGED rm_vars

SetFov ==
    \E v \in Fovs :
        /\ camera' = set_fov(camera, v)
        /\ cam_call' = SetterCall("set_fov", v # camera.fov)
        /\ UNCHANGED rm_vars

SetAspectRatio ==
    \E v \in AspectRatios :
        /\ camera' = set_aspect_ratio(camera, v)
        /\ cam_call' = SetterCall("set_aspect_ratio", v # camera.aspect_ratio)
        /\ UNCHANGED rm_vars

SetNearPlane ==
    \E v \in NearPlanes :
        /\ camera' = set_near_plane(camera, v)
        /\ cam_call' = SetterCall("set_near_plane", v # camera.near_plane)
        /\ UNCHANGED rm_vars

SetFarPlane ==
    \E v \in FarPlanes :
        /\ camera' = set_far_plane(camera, v)
        /\ cam_call' = SetterCall("set_far_plane", v # camera.far_plane)
        /\ UNCHANGED rm_vars

LookDir ==
    \E r \in {look_dir(camera)} :
        /\ camera' = r.self
        /\ cam_call' = GetterCall("look_dir", r)
        /\ UNCHANGED rm_vars

ViewMatrix ==
    \E r \in {view_matrix(camera)} :
        /\ camera' = r.self
        /\ cam_call' = GetterCall("view_matrix", r)
        /\ UNCHANGED rm_vars

ProjMatrix ==
    \E r \in {proj_matrix(camera)} :
        /\ camera' = r.self
        /\ cam_call' = GetterCall("proj_matrix", r)
        /\ UNCHANGED rm_vars

ViewProjMatrix ==
    \E r \in {view_proj_matrix(camera)} :
        /\ camera' = r.self
        /\ cam_call' = GetterCall("view_proj_matrix", r)
        /\ UNCHANGED rm_vars

\* A camera constructed with any of the parameter values, in a render
\* manager that is left alone.
CameraInit ==
    /\ \E p \in Positions, q \in Rotations, f \in Fovs, a \in AspectRatios,
          n \in NearPlanes, z \in FarPlanes :
            camera = Camera_new(p, q, f, a, n, z)
    /\ cam_call = [op |-> "new"]
    /\ RenderManager_new(800, 600)
    /\ time_manager = TimeManager_new
    /\ call = [op |-> "new"]
    /\ app = App_new

CameraNext ==
    \/ SetPosition
    \/ SetRotation
    \/ SetFov
    \/ SetAspectRatio
    \/ SetNearPlane
    \/ SetFarPlane
    \/ LookDir
    \/ ViewMatrix
    \/ ProjMatrix
    \/ ViewProjMatrix

SpecCamera == CameraInit /\ [][CameraNext]_vars

\* ------------------------------------------------- claims about the Camera
\* The derived values of the camera's current parameters, as update_values
\* computes them.
Derived(cam) ==
    Bind(inverse(from_rotation_translation(cam.rotation, cam.position)),
         LAMBDA view :
    Bind(perspective_lh(cam.fov, cam.aspect_ratio,
                        cam.near_plane, cam.far_plane),
         LAMBDA proj :
        [look_dir         |-> mul_vec3(cam.rotation, Vec3_Z),
         view_matrix      |-> view,
         proj_matrix      |-> proj,
         view_proj_matrix |-> mat4_mul(proj, view)]))

\* C7: two consecutive view_proj_matrix() calls with no setter call between
\* them return identical results, and the second call recomputes nothing.
C7_CacheCorrect ==
    [][ (cam_call.op = "view_proj_matrix" /\ cam_call'.op = "view_proj_matrix"
         /\ cam_call' # cam_call) =>
            /\ cam_call'.ret = cam_call.ret
            /\ ~cam_call'.recomputed
            /\ camera' = camera ]_vars

C7_Witness ==
    /\ cam_call.op = "view_proj_matrix"
    /\ cam_call.prev = "view_proj_matrix"
    /\ ~cam_call.recomputed
    /\ cam_call.ret # Mat4_IDENTITY

\* C8 as stated: after a setter call that changes a parameter value, the next
\* view_proj_matrix() returns a result that differs from the one returned
\* before the setter call.
C8_DiffersAfterChange ==
    [][ (cam_call.op \in Setters /\ cam_call'.op = "view_proj_matrix"
         /\ cam_call.changed /\ cam_call.before # None) =>
            cam_call'.ret # cam_call.before[1] ]_vars

\* C8, amended: after any setter call the next view_proj_matrix() is never
\* served from the old cache: it recomputes and returns projection * view of
\* the parameters the setter left.  The result need not differ from the one
\* before the setter: rotations q and -q give the same matrices.
C8_RecomputedFromNewParameters ==
    [][ (cam_call.op \in Setters /\ cam_call'.op = "view_proj_matrix") =>
            /\ cam_call'.recomputed
            /\ \E d \in {Derived(camera)} :
                   cam_call'.ret = d.view_proj_matrix ]_vars

C8_Witness ==
    /\ cam_call.op = "view_proj_matrix"
    /\ cam_call.prev = "set_rotation"
    /\ cam_call.changed
    /\ cam_call.recomputed
    /\ camera.rotation = <<Num(0), Num(-1), Num(0), Num(0)>>

\* The stale flag after a setter call, and a step of a derived getter.
C9_SetterMarksStale == cam_call.op \in Setters => camera.is_dirty

C9_GetterStep ==
    (cam_call'.op \in Getters /\ cam_call' # cam_call) =>
        /\ cam_call.op \in Setters =>
               /\ cam_call'.recomputed
               /\ ~camera'.is_dirty
               /\ \E d \in {Derived(camera)} :
                      /\ camera'.look_dir = d.look_dir
                      /\ camera'.view_matrix = d.view_matrix
                      /\ camera'.proj_matrix = d.proj_matrix
                      /\ camera'.view_proj_matrix = d.view_proj_matrix
        /\ cam_call.op \in Getters =>
               /\ ~cam_call'.recomputed
               /\ camera' = camera
        /\ cam_call'.ret = camera'[cam_call'.op]

\* C9: every setter sets the stale flag, also when the new value equals the
\* old one; the first getter call after a setter recomputes all four derived
\* values and clears the flag; a getter call right after a getter call
\* recomputes nothing.
C9_StaleFlag == []C9_SetterMarksStale /\ [][C9_GetterStep]_vars

C9_Witness ==
    /\ cam_call.op \in Getters
    /\ cam_call.prev \in Getters \ {cam_call.op}
    /\ ~cam_call.recomputed
    /\ ~camera.is_dirty

\* ----------------------------------- claims about the uniform of a frame
\* C21: when the passes of a frame have run, the camera is not stale and
\* the scene uniform holds the view-projection matrix and the look direction
\* derived from the camera's current parameters, and its position and near
\* and far planes, also after a resize changed the aspect ratio and after the
\* controller wrote a new position and rotation.
C21_UniformFollowsCamera ==
    app.at = "late_update" =>
        /\ ~camera.is_dirty
        /\ \E d \in {Derived(camera)} :
               /\ scene_bind_group.uniform.view_proj_matrix
                      = d.view_proj_matrix
               /\ scene_bind_group.uniform.camera_dir = d.look_dir
        /\ scene_bind_group.uniform.camera_pos = camera.position
        /\ scene_bind_group.uniform.camera_near = camera.near_plane
        /\ scene_bind_group.uniform.camera_far = camera.far_plane

\* The second frame of a run, rendered after a resize to a new aspect ratio
\* and after the controller moved and turned the camera.
C21_Witness ==
    /\ app.at = "late_update"
    /\ app.resizes = 1
    /\ camera.aspect_ratio = F32(400, 600)
    /\ camera.position # Vec3_ZERO
    /\ camera.rotation # Quat_IDENTITY
    /\ time_manager.delta # Num(0)
    /\ scene_bind_group.uniform.time
           = Add(time_manager.delta, time_manager.delta)

\* C22 as stated: in every rendered frame the surface-size field of the
\* scene uniform equals the width and height of the surface configuration.
\* SceneUniform::default() leaves the field at zero and only a non-empty
\* handle_resize writes it, so the frames before the first resize see 0 x 0.
C22_SurfaceSizeInEveryFrame ==
    Rendered =>
        scene_bind_group.uniform.surface_size
            = <<Num(surface_config.width), Num(surface_config.height)>>

\* ------------------------------------------------ claims about the input
\* C23 as stated: the look delta the camera controller reads at a tick is
\* the sensitivity times the way from the cursor position at the previous tick
\* to the position of the last pointer-move event, however many events
\* arrived.  handle_cursor_movement overwrites the look delta with the way
\* from the previous event, so only the last event counts.
C23_LookDeltaAccumulates ==
    app.at = "camera_controller.update" =>
        app.input_manager.look_delta
            = << Mul(Sub(app.input_manager.last_cursor_pos[1],
                         app.tick_cursor_pos[1]),
                     InputSettings_default.look_sensitivity),
                 Mul(Sub(app.input_manager.last_cursor_pos[2],
                         app.tick_cursor_pos[2]),
                     InputSettings_default.look_sensitivity) >>

\* ------------------------------------------ InputManager, as a public API
\* The keys of the keyboard events: every key of InputSettings::default()
\* and one key that is bound to nothing.
InputKeys ==
    InputSettings_default.right_keys \cup InputSettings_default.left_keys
    \cup InputSettings_default.up_keys \cup InputSettings_default.down_keys
    \cup InputSettings_default.forward_keys
    \cup InputSettings_default.backward_keys \cup {"Space"}

\* An input manager in an application that is left alone.
InputInit ==
    /\ RenderManager_new(AppSettings_default.initial_size.width,
                         AppSettings_default.initial_size.height)
    /\ camera = Camera_new(Vec3_ZERO, Quat_IDENTITY,
                    RenderSettings_default.camera_fov,
                    aspect_ratio_of(AppSettings_default.initial_size.width,
                                    AppSettings_default.initial_size.height),
                    RenderSettings_default.camera_near_plane,
                    RenderSettings_default.camera_far_plane)
    /\ time_manager = TimeManager_new
    /\ call = [op |-> "new"]
    /\ cam_call = [op |-> "new"]
    /\ app = App_new

InputKeyboardInput ==
    \E key \in InputKeys, state \in {"Pressed", "Released"} :
        /\ app' = [app EXCEPT !.input_manager =
                       handle_keyboard_input(@, key, state)]
        /\ call' = [op |-> "handle_keyboard_input", key |-> key,
                    state |-> state]
        /\ UNCHANGED <<surface_config, depth_texture, depth_view, camera,
                       scene_bind_group, renderers_by_stage, time_manager,
                       cam_call>>

InputCursorMovement ==
    \E cursor_position \in CursorPositions :
        /\ app' = [app EXCEPT !.input_manager =
                       handle_cursor_movement(@, cursor_position)]
        /\ call' = [op |-> "handle_cursor_movement",
                    cursor_position |-> cursor_position]
        /\ UNCHANGED <<surface_config, depth_texture, depth_view, camera,
                       scene_bind_group, renderers_by_stage, time_manager,
                       cam_call>>

InputLateUpdate ==
    /\ app' = [app EXCEPT !.input_manager = late_update(@)]
    /\ call' = [op |-> "late_update"]
    /\ UNCHANGED <<surface_config, depth_texture, depth_view, camera,
                   scene_bind_group, renderers_by_stage, time_manager,
                   cam_call>>

InputNext ==
    \/ InputKeyboardInput
    \/ InputCursorMovement
    \/ InputLateUpdate

SpecInput == InputInit /\ [][InputNext]_vars

\* The keys of each axis of the movement vector, by direction.
AxisKeys ==
    << [plus  |-> InputSettings_default.right_keys,
        minus |-> InputSettings_default.left_keys],
       [plus  |-> InputSettings_default.up_keys,
        minus |-> InputSettings_default.down_keys],
       [plus  |-> InputSettings_default.forward_keys,
        minus |-> InputSettings_default.backward_keys] >>

\* A key event, seen from the movement vector: the axes of the key get the
\* direction's sign on a press and zero on a release, and a release leaves
\* the other axes as they are.
C24_KeyStep ==
    call'.op = "handle_keyboard_input" =>
        \A axis \in 1..3 :
            LET before == app.input_manager.move_vector[axis]
                after  == app'.input_manager.move_vector[axis]
            IN  /\ after \in {Num(-1), Num(0), Num(1)}
                /\ call'.state = "Pressed" =>
                       /\ call'.key \in AxisKeys[axis].plus => after = Num(1)
                       /\ (call'.key \in AxisKeys[axis].minus
                           /\ call'.key \notin AxisKeys[axis].plus)
                              => after = Num(-1)
                /\ call'.state = "Released" =>
                       after = IF call'.key \in AxisKeys[axis].plus
                                              \cup AxisKeys[axis].minus
                               THEN Num(0) ELSE before

\* C24 as stated: after any sequence of key events every axis of the
\* movement vector is in {-1, 0, 1}; a press sets the key's own axis to the
\* direction's sign and a release sets the key's own axis back to 0 and leaves
\* the other axes unchanged.  The release branch of handle_keyboard_input
\* zeroes z for the up and down keys and y for the forward and backward keys.
C24_KeysDriveTheirAxis == [][C24_KeyStep]_vars

\* ------------------------------------------- claims about the frame pacing
\* The gate of App::update, seen from outside: a tick starts when the time
\* since the last rendered frame exceeds 1 / target_frame_rate seconds, and
\* otherwise nothing but the position of the event loop changes.
C25_GateStep ==
    app.at = "update" =>
        IF app.since_render_ms * AppSettings_default.target_frame_rate > 1000
        THEN /\ app'.at = "time_manager.update"
             /\ app'.since_render_ms = 0
        ELSE /\ app' = [app EXCEPT !.at = "handle_event"]
             /\ UNCHANGED <<time_manager, camera, scene_bind_group, call,
                            surface_config, depth_texture, depth_view,
                            renderers_by_stage>>

\* C25: App::update runs a tick only when the wall-clock time since the last
\* rendered frame strictly exceeds 1 / target_frame_rate; otherwise the time
\* source, the camera, the look delta, the scene uniform and the last-render
\* timestamp are untouched, nothing is rendered, and the time keeps counting
\* from the last rendered frame.
C25_GateSkipsTick ==
    [][C25_GateStep]_vars
    /\ [](app.at = "time_manager.update" =>
             app.since_update_ms * AppSettings_default.target_frame_rate
                 > 1000)

\* After a rendered frame, an update that came 20 ms later has been skipped.
C25_Witness ==
    /\ app.at = "handle_event"
    /\ app.since_render_ms = 20
    /\ app.tick = TickOrder
    /\ app.moved

\* --------------------------------------- claims about the uniform buffer
\* C26: the scene uniform buffer holds the value of the scene uniform record
\* in every state: both start as SceneUniform::default(), and handle_resize
\* and render change the record through update_uniform only, which writes the
\* same value to the buffer.
C26_BufferHoldsUniform ==
    /\ scene_bind_group.buffer = scene_bind_group.uniform
    /\ call.op = "new" => scene_bind_group.buffer = SceneUniform_default

\* A frame rendered after a resize: both writers of the record have run.
C26_Witness ==
    /\ Rendered
    /\ scene_bind_group.buffer.surface_size = <<Num(400), Num(600)>>
    /\ scene_bind_group.buffer.time # Num(0)
    /\ scene_bind_group.buffer.view_proj_matrix # Mat4_IDENTITY

\* ------------------------------------------ claims about the camera cache
\* C27: whenever the camera's stale flag is clear, the cached look
\* direction, view, projection and view-projection values are those computed
\* from the current raw parameters; a camera is stale right after its
\* construction, and every derived getter returns the value computed from
\* the parameters, never the default cache.
C27_CleanCacheIsCurrent ==
    \E d \in {Derived(camera)} :
        /\ ~camera.is_dirty =>
               /\ camera.look_dir = d.look_dir
               /\ camera.view_matrix = d.view_matrix
               /\ camera.proj_matrix = d.proj_matrix
               /\ camera.view_proj_matrix = d.view_proj_matrix
        /\ cam_call.op = "new" => camera.is_dirty
        /\ cam_call.op \in Getters => cam_call.ret = d[cam_call.op]

\* The first call on a fresh camera was a getter: it recomputed.
C27_Witness ==
    /\ cam_call.op \in Getters
    /\ cam_call.prev = "new"
    /\ cam_call.recomputed
    /\ ~camera.is_dirty
    /\ camera.view_matrix # Mat4_IDENTITY

\* ------------------------------------------ claims about the time source
\* C28 as stated: delta() is 0 before the first update and never negative,
\* and after an update it is the wall-clock time between the two most recent
\* updates in seconds.  TimeManager::update multiplies the whole milliseconds
\* by 1000 where seconds need a division by 1000.
C28_DeltaInSeconds ==
    /\ call.op = "new" => time_manager.delta = Num(0)
    /\ Le(Num(0), time_manager.delta)
    /\ call.op = "update" =>
           time_manager.delta = F32(call.elapsed_ms, 1000)

\* ---------------------------------- claims about the uniform and resizes
\* A step of handle_resize with a non-empty size, seen from the uniform.
C29_ResizeStep ==
    (call'.op = "handle_resize" /\ call'.width # 0 /\ call'.height # 0) =>
        scene_bind_group'.uniform =
            [scene_bind_group.uniform EXCEPT
                !.surface_size = <<Num(call'.width), Num(call'.height)>>]

\* C29: a handle_resize with a non-empty size changes only the surface-size
\* field of the scene uniform; the time, the view-projection matrix, the
\* camera direction and position, the near and far planes and the lighting
\* fields keep their values.
C29_ResizeKeepsOtherFields == [][C29_ResizeStep]_vars

\* A resize after a rendered frame, which had filled the uniform.
C29_Witness ==
    /\ call.op = "handle_resize"
    /\ call.width = 400 /\ call.height = 600
    /\ scene_bind_group.uniform.surface_size = <<Num(400), Num(600)>>
    /\ scene_bind_group.uniform.time # Num(0)
    /\ scene_bind_group.uniform.camera_far # Num(0)
    /\ scene_bind_group.uniform.view_proj_matrix # Mat4_IDENTITY


\* ------------------------------------------- RefCells of a rendered frame
\* The cells a frame borrows: RenderManager's scene_bind_group, camera and
\* queue, and the frame's own RefCell<Option<CommandEncoder>>.
Cells == {"scene_bind_group", "camera", "queue", "encoder"}

\* No cell borrowed, the encoder cell not yet created.
cells_new ==
    [mut      |-> [c \in Cells |-> FALSE],
     shared   |-> [c \in Cells |-> 0],
     slot     |-> "absent",
     emptied  |-> 0,
     unwraps  |-> 0,
     panicked |-> FALSE]

\* context.encoder().borrow_mut().as_mut().unwrap(): the encoder is borrowed
\* mutably, the option unwrapped, the commands recorded, the borrow dropped.
use_encoder ==
    << [cell |-> "encoder", ev |-> "borrow_mut"],
       [cell |-> "encoder", ev |-> "unwrap"],
       [cell |-> "encoder", ev |-> "drop_mut"] >>

\* SkyboxRenderer::render takes &mut Camera, &mut Queue and
\* &mut CommandEncoder: the three are held exclusively for the whole call.
skybox_cells ==
    << [cell |-> "camera", ev |-> "borrow_mut"],
       [cell |-> "queue", ev |-> "borrow_mut"],
       [cell |-> "encoder", ev |-> "borrow_mut"],
       [cell |-> "encoder", ev |-> "unwrap"],
       [cell |-> "encoder", ev |-> "drop_mut"],
       [cell |-> "queue", ev |-> "drop_mut"],
       [cell |-> "camera", ev |-> "drop_mut"] >>

\* A frame whose camera borrow lives to the end of render instead of the end
\* of the block that refreshes the uniform.
cell_events_camera_held(step) ==
    CASE step.op = "create_command_encoder" ->
            << [cell |-> "scene_bind_group", ev |-> "borrow_mut"],
               [cell |-> "encoder", ev |-> "create"] >>
      [] step.op = "update_uniform" ->
            << [cell |-> "camera", ev |-> "borrow_mut"],
               [cell |-> "queue", ev |-> "borrow"],
               [cell |-> "queue", ev |-> "drop"] >>
      [] step.op \in {"clear", "copy"} -> use_encoder
      [] step.op = "draw" ->
            IF step.renderer.name = "SkyboxRenderer" THEN skybox_cells
            ELSE use_encoder
      [] step.op = "submit" ->
            << [cell |-> "queue", ev |-> "borrow"],
               [cell |-> "encoder", ev |-> "replace_none"],
               [cell |-> "queue", ev |-> "drop"] >>
      [] step.op = "present" ->
            << [cell |-> "camera", ev |-> "drop_mut"],
               [cell |-> "scene_bind_group", ev |-> "drop_mut"] >>
      [] OTHER -> << >>

\* render, clear_surface, copy_textures_2d and Renderer::render: what each
\* step of a frame does to the cells. scene_bind_group.borrow_mut() is taken
\* before the encoder cell is created and dropped when render returns; the
\* camera borrow is confined to the block that refreshes the uniform, with
\* queue.borrow() a temporary inside it; submit borrows the queue and calls
\* encoder.replace(None).unwrap().
cell_events(step) ==
    CASE step.op = "create_command_encoder" ->
            << [cell |-> "scene_bind_group", ev |-> "borrow_mut"],
               [cell |-> "encoder", ev |-> "create"] >>
      [] step.op = "update_uniform" ->
            << [cell |-> "camera", ev |-> "borrow_mut"],
               [cell |-> "queue", ev |-> "borrow"],
               [cell |-> "queue", ev |-> "drop"],
               [cell |-> "camera", ev |-> "drop_mut"] >>
      [] step.op \in {"clear", "copy"} -> use_encoder
      [] step.op = "draw" ->
            IF step.renderer.name = "SkyboxRenderer" THEN skybox_cells
            ELSE use_encoder
      [] step.op = "submit" ->
            << [cell |-> "queue", ev |-> "borrow"],
               [cell |-> "encoder", ev |-> "replace_none"],
               [cell |-> "queue", ev |-> "drop"] >>
      [] step.op = "present" ->
            << [cell |-> "scene_bind_group", ev |-> "drop_mut"] >>
      [] OTHER -> << >>

\* The cell events of the steps of a frame, in order.
RECURSIVE frame_cell_events(_)
frame_cell_events(steps) ==
    IF steps = << >> THEN << >>
    ELSE cell_events(Head(steps)) \o frame_cell_events(Tail(steps))

\* RefCell and Option: borrow_mut panics on a cell that is borrowed, borrow
\* on a cell that is mutably borrowed; replace borrows mutably for the swap;
\* unwrap panics on None. A panic ends the frame.
apply_cell_event(s, e) ==
    IF s.panicked THEN s
    ELSE CASE e.ev = "create" -> [s EXCEPT !.slot = "Some"]
           [] e.ev = "borrow_mut" ->
                IF s.mut[e.cell] \/ s.shared[e.cell] > 0
                THEN [s EXCEPT !.panicked = TRUE]
                ELSE [s EXCEPT !.mut[e.cell] = TRUE]
           [] e.ev = "borrow" ->
                IF s.mut[e.cell]
                THEN [s EXCEPT !.panicked = TRUE]
                ELSE [s EXCEPT !.shared[e.cell] = @ + 1]
           [] e.ev = "drop_mut" -> [s EXCEPT !.mut[e.cell] = FALSE]
           [] e.ev = "drop" -> [s EXCEPT !.shared[e.cell] = @ - 1]
           [] e.ev = "unwrap" ->
                IF s.slot = "Some"
                THEN [s EXCEPT !.unwraps = @ + 1]
                ELSE [s EXCEPT !.panicked = TRUE]
           [] e.ev = "replace_none" ->
                IF s.mut[e.cell] \/ s.shared[e.cell] > 0 \/ s.slot # "Some"
                THEN [s EXCEPT !.panicked = TRUE]
                ELSE [s EXCEPT !.slot = "None", !.emptied = @ + 1]

RECURSIVE run_cells(_, _)
run_cells(events, s) ==
    IF events = << >> THEN s
    ELSE run_cells(Tail(events), apply_cell_event(s, Head(events)))

\* The cells after the steps of the last frame.
FrameCells == run_cells(frame_cell_events(call.steps), cells_new)

\* C30: in a frame that ran to its end no borrow and no unwrap panics: the
\* clear, every renderer and both copies find the encoder in its slot, the
\* slot is emptied exactly once, by the submit, and when the frame returns
\* no cell is left borrowed.
C30_EncoderAndBorrowsNeverPanic ==
    (Rendered /\ call.result = "Ok") =>
        /\ ~FrameCells.panicked
        /\ FrameCells.emptied = 1
        /\ FrameCells.slot = "None"
        /\ FrameCells.unwraps = 1 + call.renderer_calls + 2
        /\ \A c \in Cells :
               ~FrameCells.mut[c] /\ FrameCells.shared[c] = 0
        /\ \A k \in 1..Len(call.steps) :
               LET before ==
                       run_cells(frame_cell_events(SubSeq(call.steps, 1, k - 1)),
                                 cells_new)
               IN  call.steps[k].op \in {"clear", "draw", "copy", "submit"}
                       => before.slot = "Some" /\ ~before.mut["encoder"]

\* A frame with a skybox pass after the snapshot copies and a mesh pass
\* before them has run to its end.
C30_Witness ==
    /\ Rendered /\ call.result = "Ok"
    /\ \E k \in 1..Len(FrameCommands) :
           IsDraw(FrameCommands[k], "TRANSPARENT")
           /\ FrameCommands[k].renderer.name = "SkyboxRenderer"
    /\ \E k \in 1..Len(FrameCommands) :
           IsDraw(FrameCommands[k], "OPAQUE")
           /\ FrameCommands[k].renderer.name = "MeshRenderer"
    /\ FrameCells.emptied = 1

====
